---- MODULE Spec2Model ----
(***************************************************************************)
(* meli-proxy: the sliding-window quota engine (internal/ratelimit), the   *)
(* middleware chain (internal/middleware) that drives it for one HTTP      *)
(* request, and the public surface of the server (internal/proxy).  Spec   *)
(* runs the chain in front of an arbitrary next handler, FrontSpec runs    *)
(* Server.Handler, DeadlineSpec runs the chain with a clock fine enough    *)
(* for the one-second context of a request, StubSpec runs it with a        *)
(* DummyLimiter or no limiter, CollectorSpec runs metrics.AsyncCollector   *)
(* and ClassifierSpec applies ExtractIP and NormalizePath to one request.  *)
(* Strings are Go strings; durations and instants are milliseconds; the    *)
(* Redis sorted set of a key is a set of [member, score] records.          *)
(***************************************************************************)
EXTENDS Integers, Sequences, FiniteSets, Bags, TLC

(***************************************************************************)
(* Bounds of the model.                                                    *)
(***************************************************************************)
MaxRequests == 3
MaxClock == 60000
\* requests served through Server.Handler
MaxServed == 2

\* 60 * time.Second, in milliseconds (buildLimitConfigs)
window == 60000

\* context.WithTimeout(r.Context(), 1*time.Second), in milliseconds
CoordinatorTimeout == 1000

\* what the wall clock may advance by between two steps, in milliseconds
TickSteps == {30000}

\* the goroutine serving inbound requests, one request after the other
Handlers == {"h1"}

\* the map keys of limits / results in the middleware
Dimensions == {"ip", "path", "ip_path"}

(***************************************************************************)
(* String helpers (package strings).                                       *)
(***************************************************************************)
CharAt(s, i) == SubSeq(s, i, i)

HasPrefix(s, p) == Len(s) >= Len(p) /\ SubSeq(s, 1, Len(p)) = p

HasSuffix(s, p) == Len(s) >= Len(p) /\ SubSeq(s, Len(s) - Len(p) + 1, Len(s)) = p

\* strings.Index for a one-character needle; 0 when absent (Go: -1)
Index(s, c) ==
    IF \E i \in 1..Len(s) : CharAt(s, i) = c
    THEN CHOOSE i \in 1..Len(s) : CharAt(s, i) = c /\ \A j \in 1..(i - 1) : CharAt(s, j) # c
    ELSE 0

\* strings.LastIndex for a one-character needle; 0 when absent
LastIndex(s, c) ==
    IF \E i \in 1..Len(s) : CharAt(s, i) = c
    THEN CHOOSE i \in 1..Len(s) : CharAt(s, i) = c /\ \A j \in (i + 1)..Len(s) : CharAt(s, j) # c
    ELSE 0

RECURSIVE TrimLeft(_)
TrimLeft(s) == IF Len(s) > 0 /\ Head(s) = " " THEN TrimLeft(Tail(s)) ELSE s

RECURSIVE TrimRight(_)
TrimRight(s) ==
    IF Len(s) > 0 /\ CharAt(s, Len(s)) = " " THEN TrimRight(SubSeq(s, 1, Len(s) - 1)) ELSE s

TrimSpace(s) == TrimRight(TrimLeft(s))

Digits == {"0", "1", "2", "3", "4", "5", "6", "7", "8", "9"}

DigitVal(c) == CHOOSE n \in 0..9 : CharAt("0123456789", n + 1) = c

RECURSIVE Atoi(_)
Atoi(s) == IF Len(s) = 0 THEN 0 ELSE 10 * Atoi(SubSeq(s, 1, Len(s) - 1)) + DigitVal(CharAt(s, Len(s)))

\* one dotted-quad field: 1..3 decimal digits, value at most 255
IsOctet(s) ==
    /\ Len(s) \in 1..3
    /\ \A i \in 1..Len(s) : CharAt(s, i) \in Digits
    /\ Atoi(s) <= 255

RECURSIVE IsDottedQuad(_, _)
IsDottedQuad(s, n) ==
    LET dot == Index(s, ".")
    IN IF n = 1 THEN IsOctet(s)
       ELSE /\ dot > 0
            /\ IsOctet(SubSeq(s, 1, dot - 1))
            /\ IsDottedQuad(SubSeq(s, dot + 1, Len(s)), n - 1)

\* net.ParseIP(s) != nil, for the textual IPv4 form (the requests of the
\* model carry no IPv6 literal)
ParseIP(s) == IsDottedQuad(s, 4)

(***************************************************************************)
(* internal/ratelimit/utils.go                                             *)
(***************************************************************************)
\* net.SplitHostPort: [ok, host]; fails on a missing port or on a second
\* colon in an unbracketed host
SplitHostPort(addr) ==
    LET i == LastIndex(addr, ":")
        host == SubSeq(addr, 1, i - 1)
    IN IF i = 0 \/ Index(host, ":") > 0
       THEN [ok |-> FALSE, host |-> ""]
       ELSE [ok |-> TRUE, host |-> host]

ExtractIP(r) ==
    LET comma == Index(r.xff, ",")
        first == TrimSpace(IF comma = 0 THEN r.xff ELSE SubSeq(r.xff, 1, comma - 1))
        hp == SplitHostPort(r.remoteAddr)
    IN IF r.xff # "" /\ ParseIP(first) THEN first
       ELSE IF r.xri # "" /\ ParseIP(r.xri) THEN r.xri
       ELSE IF hp.ok THEN hp.host
       ELSE r.remoteAddr

\* regexp ^/<prefix>/[^/]+(/.*)?$ : [^/] matches any character but "/", "."
\* any character but a line feed, and $ the end of the text only
MatchPattern(prefix, path) ==
    LET p == "/" \o prefix \o "/"
        after == SubSeq(path, Len(p) + 1, Len(path))
        slash == Index(after, "/")
        rest == IF slash = 0 THEN "" ELSE SubSeq(after, slash, Len(after))
    IN /\ HasPrefix(path, p)
       /\ Len(after) > 0
       /\ slash # 1
       /\ Index(rest, "\n") = 0

NormalizePath(path) ==
    LET q == Index(path, "?")
        p1 == IF q # 0 THEN SubSeq(path, 1, q - 1) ELSE path
        p2 == IF Len(p1) > 1 /\ HasSuffix(p1, "/") THEN SubSeq(p1, 1, Len(p1) - 1) ELSE p1
    IN CASE MatchPattern("categories", p2) -> "/categories/*"
         [] MatchPattern("items", p2) -> "/items/*"
         [] MatchPattern("users", p2) -> "/users/*"
         [] MatchPattern("sites", p2) -> "/sites/*"
         [] OTHER -> p2

(***************************************************************************)
(* internal/ratelimit/redis.go: key helpers                                *)
(***************************************************************************)
IPKey(ip) == "ip::" \o ip

PathKey(path) == "path::" \o path

IPPathKey(ip, path) == "ip_path::" \o ip \o "::" \o path

GetLimitKeys(r) ==
    LET ip == ExtractIP(r)
        normalizedPath == NormalizePath(r.path)
    IN [d \in Dimensions |->
          CASE d = "ip" -> IPKey(ip)
            [] d = "path" -> PathKey(normalizedPath)
            [] d = "ip_path" -> IPPathKey(ip, normalizedPath)]

(***************************************************************************)
(* State.                                                                  *)
(***************************************************************************)
VARIABLES
    clock,      \* time.Now().UnixMilli()
    store,      \* Redis: key -> sorted set, a set of [member, score]
    config,     \* *config.Config handed to the middleware
    hs,         \* per handler goroutine: the request it serves and its locals
    nStarted,   \* number of requests accepted so far
    admitLog,   \* history: the admits the store has answered
    admitted,   \* history: source and route class of the requests admitted by a call
    limiter,    \* the ratelimit.Limiter the middleware was constructed with
    ac,         \* metrics.AsyncCollector, its worker and the goroutines using it
    cl,         \* one application of the classifier: its input and its results
    lc,         \* ratelimit.LocalCache, its sweeper and the goroutines calling the limiter
    par,        \* one call of CheckMultipleLimitsOptimized: its channel and its locals
    mm,         \* the requests-in-progress gauge and the goroutines inside MetricsMiddleware
    pf          \* one application of addHashTag, of the reply parsers and of buildLimitConfigs

vars == <<clock, store, config, hs, nStarted, admitLog, admitted, limiter, ac, cl, lc, par, mm, pf>>

\* config.Config: the rate limiting fields, as loaded from the environment
Configs ==
    { [TargetURL |-> "https://api.mercadolibre.com",
       DefaultRPS |-> 2,
       IPRateLimit |-> ("10.0.0.1" :> 1),
       PathRateLimit |-> <<>>,
       IPPathRateLimit |-> <<>>] }

\* the inbound requests of the model: forwarding headers, peer address, path
Requests ==
    { [method |-> "GET", path |-> "/categories/MLA1", query |-> "",
       xff |-> "203.0.113.10", xri |-> "", remoteAddr |-> "192.168.1.100:12345"],
      [method |-> "GET", path |-> "/users/42/", query |-> "",
       xff |-> "", xri |-> "", remoteAddr |-> "10.0.0.1:5000"] }

NoRequest ==
    [method |-> "", path |-> "", query |-> "", xff |-> "", xri |-> "", remoteAddr |-> ""]

NoResponse == [status |-> 0, headers |-> <<>>, body |-> "", next |-> 0, blocked |-> <<>>]

\* pc, req .. err are the locals of Handler and CheckMultipleLimits; shared
\* tells whether an earlier request with the same source or route class was
\* admitted by a call, verdicts and changed record what its calls did; route
\* is the branch of Server.Handler taken, sent the requests issued to the
\* upstream, got what the upstream did with them and metrics the calls made
\* on package metrics for the request; start is the instant the handler was
\* entered and calledAt the instant of its latest call to the limiter
IdleHandler ==
    [pc |-> "idle", shared |-> FALSE, req |-> NoRequest, ip |-> "", path |-> "", pending |-> {},
     results |-> <<>>, err |-> FALSE, verdicts |-> <<>>, changed |-> {}, resp |-> NoResponse,
     route |-> "", sent |-> <<>>, got |-> <<>>, metrics |-> <<>>,
     start |-> 0, calledAt |-> 0]

\* the statuses the next handler (the reverse proxy) may answer with
NextStatuses == {200, 502}

\* NewAsyncCollector: an empty channel, a running ticker and a worker about
\* to enter its select.  tick is the one-slot channel of the ticker, batch
\* the local of worker, shutdown the position of the caller of Shutdown,
\* calls the calls made on package metrics; processed (the events handed to
\* processBatch), accepted (the events a send put into the channel),
\* produced (the calls of the producers) and last (how the latest of them
\* ended) are history
NewAsyncCollector ==
    [buffer |-> <<>>, closed |-> FALSE, stopped |-> FALSE, tick |-> FALSE,
     batch |-> <<>>, worker |-> "select", shutdown |-> "idle",
     calls |-> <<>>, processed |-> <<>>, accepted |-> <<>>, produced |-> 0, last |-> "none"]

\* the classifier before it is applied to the request r
NoClassification ==
    [r |-> NoRequest, ipDone |-> FALSE, ip |-> "", pathDone |-> FALSE, path |-> "",
     againDone |-> FALSE, again |-> ""]

\* the goroutines calling CheckLimitOptimized side by side
CacheCallers == {"g1", "g2"}

NoResult == [Allowed |-> FALSE, Remaining |-> 0, ResetTime |-> 0]

\* a goroutine outside CheckLimitOptimized.  key, limit and deadline are the
\* arguments of its call (deadline that of ctx), seen the entry its Get
\* loaded, result what the call returned; source tells where the result
\* came from (cache, store, failopen) and inserted whether its script call
\* added a member to the bucket
IdleCaller ==
    [pc |-> "idle", key |-> "", limit |-> 0, deadline |-> 0, seen |-> NoResult,
     result |-> NoResult, source |-> "none", inserted |-> FALSE]

\* NewLocalCache: an empty sync.Map and a sweeper waiting for its ticker;
\* g holds the goroutines that call the limiter, victims the keys the sweeper
\* is about to delete; calls counts the calls made and answers holds what
\* they returned (history)
NewLocalCache(callers) ==
    [data |-> <<>>, g |-> [c \in callers |-> IdleCaller], victims |-> {}, calls |-> 0,
     answers |-> {}]

\* CheckMultipleLimitsOptimized not called: phase is the position of the
\* caller, resultChan the channel, i the loop counter of line 145, results
\* the map being built, deadline that of ctx
NoParallelCheck ==
    [phase |-> "idle", resultChan |-> <<>>, i |-> 0, results |-> <<>>, deadline |-> 0,
     limits |-> <<>>, calls |-> 0]

\* the goroutines serving requests through MetricsMiddleware side by side
WrapHandlers == {"h1", "h2"}

\* the locals of MetricsMiddleware.Handler outside the wrapper
OutsideWrapper == [pc |-> "out", method |-> "", path |-> "", statusCode |-> 0, written |-> FALSE]

\* requestsInProgress and requestsTotal with no child yet and nobody inside
\* the wrapper; served counts the requests that entered (history)
NoRequestsInProgress ==
    [gauge |-> <<>>,
     total |-> <<>>,
     w |-> [h \in WrapHandlers |-> OutsideWrapper],
     served |-> 0]

\* a ledger reply that is no list
NoReply == [isList |-> FALSE, elems |-> <<>>]

\* nothing applied yet: req is the request whose keys are tagged, rps the
\* default limit, reply the ledger reply handed to the parsers
NoApplication ==
    [req |-> NoRequest, rps |-> 0, reply |-> NoReply,
     tagDone |-> FALSE, tagged |-> <<>>,
     limitsDone |-> FALSE, limits |-> <<>>,
     parseDone |-> FALSE, parsed |-> <<>>]

(***************************************************************************)
(* The Redis sorted-set commands the script uses.                          *)
(***************************************************************************)
BucketOf(st, key) == IF key \in DOMAIN st THEN st[key] ELSE {}

Bucket(key) == BucketOf(store, key)

\* ZREMRANGEBYSCORE key -inf max: both ends inclusive
ZRemRangeByScore(zset, max) == {m \in zset : m.score > max}

ZCard(zset) == Cardinality(zset)

\* ZADD key score member: a member already present only has its score updated
ZAdd(zset, score, member) ==
    {m \in zset : m.member # member} \cup {[member |-> member, score |-> score]}

\* the script with the comparison of line 29 off by one
slidingWindowScript_OffByOne(zset, windowSeconds, limit, now) ==
    LET kept == ZRemRangeByScore(zset, now - windowSeconds * 1000)
        current == ZCard(kept)
    IN IF current <= limit
       THEN [zset |-> ZAdd(kept, now, now), reply |-> <<1, limit - current - 1>>]
       ELSE [zset |-> kept, reply |-> <<0, 0>>]

\* the script recording the request before it looks at the limit
slidingWindowScript_AddOnDeny(zset, windowSeconds, limit, now) ==
    LET kept == ZRemRangeByScore(zset, now - windowSeconds * 1000)
        current == ZCard(kept)
    IN IF current < limit
       THEN [zset |-> ZAdd(kept, now, now), reply |-> <<1, limit - current - 1>>]
       ELSE [zset |-> ZAdd(kept, now, now), reply |-> <<0, 0>>]

\* slidingWindowScript, run atomically by Redis: the sorted set afterwards
\* and the two-element reply.  EXPIRE only drops a key whose members would
\* all be evicted by the next run of the script, so it is not kept as state.
slidingWindowScript(zset, windowSeconds, limit, now) ==
    LET kept == ZRemRangeByScore(zset, now - windowSeconds * 1000)
        current == ZCard(kept)
    IN IF current < limit
       THEN [zset |-> ZAdd(kept, now, now), reply |-> <<1, limit - current - 1>>]
       ELSE [zset |-> kept, reply |-> <<0, 0>>]

\* the store after a write to one key (Redis keeps no empty sorted set)
SetBucket(key, zset) ==
    [k \in ((DOMAIN store) \cup {key}) \ (IF zset = {} THEN {key} ELSE {}) |->
        IF k = key THEN zset ELSE store[k]]

\* RedisLimiter.CheckLimit when the script call succeeds
CheckLimit(key, limit, win) ==
    LET now == clock
        windowSeconds == win \div 1000
        run == slidingWindowScript(Bucket(key), windowSeconds, limit, now)
    IN [zset |-> run.zset,
        result |-> [Allowed |-> run.reply[1] = 1,
                    Remaining |-> run.reply[2],
                    ResetTime |-> clock + win]]

(***************************************************************************)
(* RateLimitMiddleware                                                     *)
(***************************************************************************)
Lookup(m, k, default) == IF k \in DOMAIN m THEN m[k] ELSE default

buildLimitConfigs(cfg, ip, path) ==
    [d \in Dimensions |->
        [Limit |-> CASE d = "ip" -> Lookup(cfg.IPRateLimit, ip, cfg.DefaultRPS)
                     [] d = "path" -> Lookup(cfg.PathRateLimit, path, cfg.DefaultRPS)
                     [] d = "ip_path" ->
                          Lookup(cfg.IPPathRateLimit, ip \o "::" \o path, cfg.DefaultRPS \div 2),
         Window |-> window]]

\* the limits local of the request handler h is serving
LimitsOf(h) == buildLimitConfigs(config, hs[h].ip, hs[h].path)

Unix(ms) == ms \div 1000

writeRateLimitResponse(result) ==
    [status |-> 429,
     headers |-> ("Content-Type" :> "application/json"
                  @@ "X-RateLimit-Remaining" :> result.Remaining
                  @@ "X-RateLimit-Reset" :> Unix(result.ResetTime)),
     body |-> "{\"error\":\"rate_limit_exceeded\",\"message\":\"Too many requests\"}"]

\* the orders in which a range statement may visit the keys S of a map
Orders(S) ==
    {o \in [1..Cardinality(S) -> S] : \A i, j \in DOMAIN o : o[i] = o[j] => i = j}

\* addRateLimitHeaders, lines 122-132: the loop over results, visited in
\* order; earliestReset starts as the zero time.Time
RECURSIVE MostRestrictive(_, _, _)
MostRestrictive(results, order, acc) ==
    IF order = <<>> THEN acc
    ELSE LET result == results[Head(order)]
         IN MostRestrictive(results, Tail(order),
                [minRemaining |-> IF acc.minRemaining = -1 \/ result.Remaining < acc.minRemaining
                                  THEN result.Remaining ELSE acc.minRemaining,
                 isZero |-> FALSE,
                 earliestReset |-> IF acc.isZero \/ result.ResetTime < acc.earliestReset
                                   THEN result.ResetTime ELSE acc.earliestReset])

\* the headers taken from the result visited last
addRateLimitHeaders_LastWins(cfg, results, order) ==
    LET last == results[order[Len(order)]]
    IN ("X-RateLimit-Limit" :> cfg.DefaultRPS)
       @@ ("X-RateLimit-Remaining" :> last.Remaining)
       @@ ("X-RateLimit-Reset" :> Unix(last.ResetTime))

addRateLimitHeaders(cfg, results, order) ==
    LET acc == MostRestrictive(results, order,
                               [minRemaining |-> -1, isZero |-> TRUE, earliestReset |-> 0])
        rem == IF acc.minRemaining >= 0 THEN ("X-RateLimit-Remaining" :> acc.minRemaining)
               ELSE <<>>
        rst == IF ~acc.isZero THEN ("X-RateLimit-Reset" :> Unix(acc.earliestReset)) ELSE <<>>
    IN ("X-RateLimit-Limit" :> cfg.DefaultRPS) @@ rem @@ rst

\* package metrics: one call on the collectors of the process
RecordRequest(method, path, status) ==
    [kind |-> "request", method |-> method, path |-> path, status |-> status]

RecordRateLimitBlocked(limitType, key) ==
    [kind |-> "blocked", limit_type |-> limitType, key |-> key]

\* the middleware returning without a record when the wrapped handler denied
MetricsMiddleware_SkipDenied(r, status) ==
    IF status = 429 THEN <<>> ELSE <<RecordRequest(r.method, NormalizePath(r.path), status)>>

\* MetricsMiddleware.Handler, lines 59-63: what it records once the wrapped
\* handler has returned with the status captured by responseWriter
MetricsMiddleware(r, status) == <<RecordRequest(r.method, NormalizePath(r.path), status)>>

\* next.ServeHTTP(w, r): the next handler answers on the writer it is given
NextServeHTTP(headers, status) ==
    [status |-> status, headers |-> headers, body |-> "", next |-> 1, blocked |-> <<>>]

\* Handler, lines 31-40: a request arrives; keys, ip, path and limits are built
StartRequest(h, r) ==
    /\ hs[h].pc \in {"idle", "done"}
    /\ nStarted < MaxRequests
    /\ nStarted' = nStarted + 1
    /\ hs' = [hs EXCEPT ![h] = [IdleHandler EXCEPT !.pc = "check", !.req = r,
                                                   !.shared =
                                                       \E a \in admitted :
                                                           \/ a.ip = ExtractIP(r)
                                                           \/ a.path = NormalizePath(r.path),
                                                   !.ip = ExtractIP(r),
                                                   !.path = NormalizePath(r.path),
                                                   !.pending = Dimensions,
                                                   !.start = clock]]
    /\ UNCHANGED <<clock, store, config, admitLog, admitted, limiter, ac, cl, lc, par, mm, pf>>

\* the context Handler derives for the limiter, with a deadline no handler
\* of the model lives to see
Deadline_Never(start) == start + 2 * MaxClock + 1

\* Handler, line 31: the deadline of ctx
Deadline(start) == start + CoordinatorTimeout

\* one iteration of the loop of CheckMultipleLimits (Go visits the map in any
\* order): the script call succeeds, which script.Run(ctx, ...) can only do
\* while ctx is alive
CheckLimitOK(h, key) ==
    LET lim == LimitsOf(h)[key]
        call == CheckLimit(key, lim.Limit, lim.Window)
        rest == hs[h].pending \ {key}
    IN /\ hs[h].pc = "check"
       /\ limiter = "redis"
       /\ key \in hs[h].pending
       /\ clock < Deadline(hs[h].start)
       /\ store' = SetBucket(key, call.zset)
       /\ admitLog' = IF call.result.Allowed
                      THEN admitLog \cup {[key |-> key, ts |-> clock, limit |-> lim.Limit,
                                          nth |-> 1 + Cardinality({x \in admitLog :
                                                      x.key = key /\ x.ts = clock})]}
                      ELSE admitLog
       /\ admitted' = IF call.result.Allowed
                      THEN admitted \cup {[ip |-> hs[h].ip, path |-> hs[h].path]}
                      ELSE admitted
       /\ hs' = [hs EXCEPT ![h].pending = rest,
                           ![h].results = (key :> call.result) @@ hs[h].results,
                           ![h].verdicts = (key :> IF call.result.Allowed THEN "admit" ELSE "deny")
                                           @@ hs[h].verdicts,
                           ![h].changed = IF call.zset # Bucket(key) THEN @ \cup {key} ELSE @,
                           ![h].calledAt = clock,
                           ![h].pc = IF rest = {} THEN "respond" ELSE "check"]
       /\ UNCHANGED <<clock, config, nStarted, limiter, ac, cl, lc, par, mm, pf>>

\* one iteration of the loop of CheckMultipleLimits: the script call fails
\* before the store runs it (connection refused, pool timeout, deadline of
\* ctx exceeded) and the loop returns the error
CheckLimitErr(h, key) ==
    /\ hs[h].pc = "check"
    /\ limiter = "redis"
    /\ key \in hs[h].pending
    /\ store' = store
    /\ hs' = [hs EXCEPT ![h].pending = @ \ {key},
                        ![h].results = <<>>,
                        ![h].err = TRUE,
                        ![h].verdicts = (key :> "error") @@ hs[h].verdicts,
                        ![h].calledAt = clock,
                        ![h].pc = "respond"]
    /\ UNCHANGED <<clock, config, nStarted, admitLog, admitted, limiter, ac, cl, lc, par, mm, pf>>

\* the error branch failing closed
FailOpen_Closed(status) ==
    [status |-> 500, headers |-> <<>>, body |-> "", next |-> 0, blocked |-> <<>>]

\* Handler, lines 44-52: CheckMultipleLimits returned an error
FailOpen(status) == NextServeHTTP(<<>>, status)

\* the loop of line 55 looking at the per-IP result only
Deniers_OnlyIP(results) == {d \in DOMAIN results \cap {"ip"} : ~results[d].Allowed}

\* Handler, lines 55-56: the results whose limit was exceeded
Deniers(results) == {d \in DOMAIN results : ~results[d].Allowed}

\* Handler, lines 43-78, once CheckMultipleLimits has returned
Respond(h, status) ==
    LET results == hs[h].results
        keys == GetLimitKeys(hs[h].req)
        deniers == Deniers(results)
    IN /\ hs[h].pc = "respond"
       /\ \/ /\ hs[h].err
             /\ hs' = [hs EXCEPT ![h].pc = "done", ![h].resp = FailOpen(status),
                                 ![h].metrics = MetricsMiddleware(hs[h].req, status)]
          \/ /\ ~hs[h].err
             /\ deniers # {}
             /\ status = 200
             /\ \E limitType \in deniers :
                  hs' = [hs EXCEPT ![h].pc = "done",
                                   ![h].resp = writeRateLimitResponse(results[limitType])
                                               @@ [next |-> 0,
                                                   blocked |-> <<limitType, keys[limitType]>>],
                                   ![h].metrics =
                                       <<RecordRateLimitBlocked(limitType, keys[limitType])>>
                                       \o MetricsMiddleware(hs[h].req, 429)]
          \/ /\ ~hs[h].err
             /\ deniers = {}
             /\ \E order \in Orders(DOMAIN results) :
                  hs' = [hs EXCEPT ![h].pc = "done",
                                   ![h].resp = NextServeHTTP(
                                       addRateLimitHeaders(config, results, order), status),
                                   ![h].metrics = MetricsMiddleware(hs[h].req, status)]
       /\ UNCHANGED <<clock, store, config, nStarted, admitLog, admitted, limiter, ac, cl, lc, par, mm, pf>>

\* the wall clock advances
Tick(d) ==
    /\ clock + d <= MaxClock
    /\ clock' = clock + d
    /\ UNCHANGED <<store, config, hs, nStarted, admitLog, admitted, limiter, ac, cl, lc, par, mm, pf>>

Init ==
    /\ clock = 0
    /\ store = <<>>
    /\ config \in Configs
    /\ hs = [h \in Handlers |-> IdleHandler]
    /\ nStarted = 0
    /\ admitLog = {}
    /\ admitted = {}
    /\ limiter = "redis"
    /\ ac = NewAsyncCollector
    /\ cl = NoClassification
    /\ lc = NewLocalCache(CacheCallers)
    /\ par = NoParallelCheck
    /\ mm = NoRequestsInProgress
    /\ pf = NoApplication

Next ==
    \/ \E h \in Handlers, r \in Requests : StartRequest(h, r)
    \/ \E h \in Handlers, key \in Dimensions : CheckLimitOK(h, key)
    \/ \E h \in Handlers, key \in Dimensions : CheckLimitErr(h, key)
    \/ \E h \in Handlers, status \in NextStatuses : Respond(h, status)
    \/ \E d \in TickSteps : Tick(d)

Spec == Init /\ [][Next]_vars

(***************************************************************************)
(* internal/proxy/server.go: the public HTTP surface.                      *)
(***************************************************************************)
\* config.Config with DEFAULT_RPS=0 besides the configuration above
FrontConfigs ==
    Configs \cup
    { [TargetURL |-> "https://api.mercadolibre.com",
       DefaultRPS |-> 0,
       IPRateLimit |-> <<>>,
       PathRateLimit |-> <<>>,
       IPPathRateLimit |-> <<>>] }

\* the inbound requests at the surface; path is r.URL.Path (percent-decoded:
\* "/no-ratelimit/%" is what the server makes of "/no-ratelimit/%25")
FrontRequests ==
    { [method |-> "GET", path |-> "/health", query |-> "",
       xff |-> "", xri |-> "", remoteAddr |-> "10.0.0.1:5000"],
      [method |-> "POST", path |-> "/health", query |-> "",
       xff |-> "", xri |-> "", remoteAddr |-> "10.0.0.1:5000"],
      [method |-> "GET", path |-> "/status", query |-> "",
       xff |-> "", xri |-> "", remoteAddr |-> "10.0.0.1:5000"],
      [method |-> "GET", path |-> "/no-ratelimit/sites/MLA", query |-> "limit=1",
       xff |-> "", xri |-> "", remoteAddr |-> "10.0.0.1:5000"],
      [method |-> "GET", path |-> "/no-ratelimit/%", query |-> "",
       xff |-> "", xri |-> "", remoteAddr |-> "10.0.0.1:5000"],
      [method |-> "GET", path |-> "/categories/MLA1", query |-> "",
       xff |-> "203.0.113.10", xri |-> "", remoteAddr |-> "192.168.1.100:12345"] }

\* what the upstream does with one request: a response, or a transport error
Upstreams ==
    { [err |-> FALSE, status |-> 200, headers |-> <<>>, body |-> "{}"],
      [err |-> FALSE, status |-> 302, headers |-> ("Location" :> "https://elsewhere"),
       body |-> ""],
      [err |-> FALSE, status |-> 503, headers |-> <<>>, body |-> "unavailable"],
      [err |-> TRUE, status |-> 0, headers |-> <<>>, body |-> ""] }

HexDigits == Digits \cup {"a", "b", "c", "d", "e", "f", "A", "B", "C", "D", "E", "F"}

\* net/url: every "%" of a path starts a two-digit hexadecimal escape
ValidEscapes(s) ==
    \A i \in 1..Len(s) :
        CharAt(s, i) = "%" =>
            /\ i + 2 <= Len(s)
            /\ CharAt(s, i + 1) \in HexDigits
            /\ CharAt(s, i + 2) \in HexDigits

\* url.Parse of an absolute URL under base: the path up to the first "?",
\* the query after it; an invalid escape in the path is an error
ParseURL(base, rawURL) ==
    LET rest == SubSeq(rawURL, Len(base) + 1, Len(rawURL))
        q == Index(rest, "?")
        path == IF q = 0 THEN rest ELSE SubSeq(rest, 1, q - 1)
        query == IF q = 0 THEN "" ELSE SubSeq(rest, q + 1, Len(rest))
    IN [ok |-> ValidEscapes(path), path |-> path, query |-> query]

TrimPrefix(s, p) == IF HasPrefix(s, p) THEN SubSeq(s, Len(p) + 1, Len(s)) ELSE s

isNoRateLimitRoute(path) == HasPrefix(path, "/no-ratelimit/")

\* the dispatch with the method left out of the two reserved routes
Route_AnyMethod(r) ==
    IF r.path = "/health" THEN "health"
    ELSE IF r.path = "/status" THEN "status"
    ELSE IF isNoRateLimitRoute(r.path) THEN "bypass"
    ELSE "proxy"

\* Server.Handler: the branch a request takes
Route(r) ==
    IF r.path = "/health" /\ r.method = "GET" THEN "health"
    ELSE IF r.path = "/status" /\ r.method = "GET" THEN "status"
    ELSE IF isNoRateLimitRoute(r.path) THEN "bypass"
    ELSE "proxy"

\* http.Error(w, msg, code)
HTTPError(msg, code) ==
    [status |-> code,
     headers |-> ("Content-Type" :> "text/plain; charset=utf-8"
                  @@ "X-Content-Type-Options" :> "nosniff"),
     body |-> msg \o "\n", next |-> 0, blocked |-> <<>>]

\* ModifyResponse rewriting the redirect target to the proxy
ModifyResponse_RewriteLocation(headers) ==
    ("Cache-Control" :> "no-cache, no-store, must-revalidate")
    @@ ("Pragma" :> "no-cache") @@ ("Expires" :> "0") @@ ("X-Proxy-By" :> "meli-proxy")
    @@ [k \in DOMAIN headers |-> IF k = "Location" THEN "/" ELSE headers[k]]

\* NewServer, ModifyResponse: Header.Set on the upstream response
ModifyResponse(headers) ==
    ("Cache-Control" :> "no-cache, no-store, must-revalidate")
    @@ ("Pragma" :> "no-cache") @@ ("Expires" :> "0") @@ ("X-Proxy-By" :> "meli-proxy")
    @@ headers

\* NewServer, ErrorHandler: the reply to a transport error, on the writer
\* that already holds headers
ErrorHandler(headers) ==
    [status |-> 502, headers |-> headers,
     body |-> "{\"error\":\"service_unavailable\",\"message\":\"Upstream service error\"}",
     next |-> 1, blocked |-> <<>>]

\* httputil.ReverseProxy.ServeHTTP as configured by NewServer: the Director
\* keeps path and query, Transport.RoundTrip makes one round trip, the
\* answer is passed through ModifyResponse and copied to the writer
ReverseProxy(headers, r, up) ==
    [sent |-> <<[method |-> r.method, path |-> r.path, query |-> r.query]>>,
     got |-> <<up>>,
     resp |-> IF up.err THEN ErrorHandler(headers)
              ELSE [status |-> up.status, headers |-> ModifyResponse(up.headers) @@ headers,
                    body |-> up.body, next |-> 1, blocked |-> <<>>]]

\* httpclient.NewOptimizedClient().Do: the client returns the first response
\* of the upstream, a 3xx included, and issues no further request
ClientDo(req, up) == [sent |-> <<req>>, got |-> <<up>>]

\* Server.HealthHandler: the map handed to the JSON encoder
healthInfo ==
    "status" :> "healthy" @@ "service" :> "meli-proxy" @@ "version" :> "v1.5.1"
    @@ "uptime" :> clock @@ "target_url" :> config.TargetURL
    @@ "system" :> {"goroutines", "memory_mb", "gc_cycles", "cpu_count"}
    @@ "timestamp" :> clock
    @@ "deployment" :> [environment |-> "production", region |-> "sfo3", instances |-> 4]

\* Server.Handler, lines 169-174
statusInfo ==
    "status" :> "ok" @@ "version" :> "v1.5.1" @@ "uptime" :> clock
    @@ "service" :> "meli-proxy"

\* a body written by json.NewEncoder(w).Encode with status 200
LocalJSON(info) ==
    [status |-> 200, headers |-> ("Content-Type" :> "application/json"), body |-> "",
     json |-> info, next |-> 0, blocked |-> <<>>]

\* Server.Handler, lines 160-163, and HealthHandler
HealthHandler(h, r) ==
    /\ hs[h].pc \in {"idle", "done"}
    /\ nStarted < MaxServed
    /\ Route(r) = "health"
    /\ nStarted' = nStarted + 1
    /\ hs' = [hs EXCEPT ![h] = [IdleHandler EXCEPT !.pc = "done", !.req = r,
                                                   !.route = "health",
                                                   !.resp = LocalJSON(healthInfo)]]
    /\ UNCHANGED <<clock, store, config, admitLog, admitted, limiter, ac, cl, lc, par, mm, pf>>

\* Server.Handler, lines 166-177
StatusHandler(h, r) ==
    /\ hs[h].pc \in {"idle", "done"}
    /\ nStarted < MaxServed
    /\ Route(r) = "status"
    /\ nStarted' = nStarted + 1
    /\ hs' = [hs EXCEPT ![h] = [IdleHandler EXCEPT !.pc = "done", !.req = r,
                                                   !.route = "status",
                                                   !.resp = LocalJSON(statusInfo)]]
    /\ UNCHANGED <<clock, store, config, admitLog, admitted, limiter, ac, cl, lc, par, mm, pf>>

\* Server.Handler, lines 180-183, and ServeNoRateLimit
ServeNoRateLimit(h, r, up) ==
    LET originalPath == TrimPrefix(r.path, "/no-ratelimit")
        targetURL == config.TargetURL \o originalPath
                     \o (IF r.query # "" THEN "?" \o r.query ELSE "")
        parsed == ParseURL(config.TargetURL, targetURL)
        proxyReq == [method |-> r.method, path |-> parsed.path, query |-> parsed.query]
        do == ClientDo(proxyReq, up)
    IN /\ hs[h].pc \in {"idle", "done"}
       /\ nStarted < MaxServed
       /\ Route(r) = "bypass"
       /\ nStarted' = nStarted + 1
       /\ \/ /\ ~parsed.ok
             /\ hs' = [hs EXCEPT ![h] =
                          [IdleHandler EXCEPT !.pc = "done", !.req = r, !.route = "bypass",
                               !.resp = HTTPError("Internal Server Error", 500),
                               !.metrics = <<RecordRequest(r.method, "/no-ratelimit/*", 500)>>]]
          \/ /\ parsed.ok
             /\ up.err
             /\ hs' = [hs EXCEPT ![h] =
                          [IdleHandler EXCEPT !.pc = "done", !.req = r, !.route = "bypass",
                               !.sent = do.sent, !.got = do.got,
                               !.resp = HTTPError("Bad Gateway", 502),
                               !.metrics = <<RecordRequest(r.method, "/no-ratelimit/*", 502)>>]]
          \/ /\ parsed.ok
             /\ ~up.err
             /\ hs' = [hs EXCEPT ![h] =
                          [IdleHandler EXCEPT !.pc = "done", !.req = r, !.route = "bypass",
                               !.sent = do.sent, !.got = do.got,
                               !.resp = [status |-> up.status, headers |-> up.headers,
                                         body |-> up.body, next |-> 0, blocked |-> <<>>],
                               !.metrics =
                                   <<RecordRequest(r.method, "/no-ratelimit/*", up.status)>>]]
       /\ UNCHANGED <<clock, store, config, admitLog, admitted, limiter, ac, cl, lc, par, mm, pf>>

\* Server.Handler, line 186, ServeHTTP and the head of the middleware chain:
\* the request enters RateLimitMiddleware.Handler
ServeHTTP(h, r) ==
    /\ hs[h].pc \in {"idle", "done"}
    /\ nStarted < MaxServed
    /\ Route(r) = "proxy"
    /\ nStarted' = nStarted + 1
    /\ hs' = [hs EXCEPT ![h] = [IdleHandler EXCEPT !.pc = "check", !.req = r,
                                                   !.route = "proxy",
                                                   !.shared =
                                                       \E a \in admitted :
                                                           \/ a.ip = ExtractIP(r)
                                                           \/ a.path = NormalizePath(r.path),
                                                   !.ip = ExtractIP(r),
                                                   !.path = NormalizePath(r.path),
                                                   !.pending = Dimensions,
                                                   !.start = clock]]
    /\ UNCHANGED <<clock, store, config, admitLog, admitted, limiter, ac, cl, lc, par, mm, pf>>

\* RateLimitMiddleware.Handler, lines 43-78, with s.proxy as the next
\* handler, and MetricsMiddleware.Handler around it
ServeProxy(h, up) ==
    LET results == hs[h].results
        keys == GetLimitKeys(hs[h].req)
        deniers == Deniers(results)
    IN /\ hs[h].pc = "respond"
       /\ hs[h].route = "proxy"
       /\ \/ /\ hs[h].err
             /\ LET fwd == ReverseProxy(<<>>, hs[h].req, up)
                IN hs' = [hs EXCEPT ![h].pc = "done", ![h].resp = fwd.resp,
                                    ![h].sent = fwd.sent, ![h].got = fwd.got,
                                    ![h].metrics = MetricsMiddleware(hs[h].req, fwd.resp.status)]
          \/ /\ ~hs[h].err
             /\ deniers # {}
             /\ up.err
             /\ \E limitType \in deniers :
                  hs' = [hs EXCEPT ![h].pc = "done",
                                   ![h].resp = writeRateLimitResponse(results[limitType])
                                               @@ [next |-> 0,
                                                   blocked |-> <<limitType, keys[limitType]>>],
                                   ![h].metrics =
                                       <<RecordRateLimitBlocked(limitType, keys[limitType])>>
                                       \o MetricsMiddleware(hs[h].req, 429)]
          \/ /\ ~hs[h].err
             /\ deniers = {}
             /\ \E order \in Orders(DOMAIN results) :
                  LET fwd == ReverseProxy(addRateLimitHeaders(config, results, order),
                                          hs[h].req, up)
                  IN hs' = [hs EXCEPT ![h].pc = "done", ![h].resp = fwd.resp,
                                      ![h].sent = fwd.sent, ![h].got = fwd.got,
                                      ![h].metrics =
                                          MetricsMiddleware(hs[h].req, fwd.resp.status)]
       /\ UNCHANGED <<clock, store, config, nStarted, admitLog, admitted, limiter, ac, cl, lc, par, mm, pf>>

FrontInit ==
    /\ clock = 0
    /\ store = <<>>
    /\ config \in FrontConfigs
    /\ hs = [h \in Handlers |-> IdleHandler]
    /\ nStarted = 0
    /\ admitLog = {}
    /\ admitted = {}
    /\ limiter = "redis"
    /\ ac = NewAsyncCollector
    /\ cl = NoClassification
    /\ lc = NewLocalCache(CacheCallers)
    /\ par = NoParallelCheck
    /\ mm = NoRequestsInProgress
    /\ pf = NoApplication

FrontNext ==
    \/ \E h \in Handlers, r \in FrontRequests : HealthHandler(h, r)
    \/ \E h \in Handlers, r \in FrontRequests : StatusHandler(h, r)
    \/ \E h \in Handlers, r \in FrontRequests, up \in Upstreams : ServeNoRateLimit(h, r, up)
    \/ \E h \in Handlers, r \in FrontRequests : ServeHTTP(h, r)
    \/ \E h \in Handlers, key \in Dimensions : CheckLimitOK(h, key)
    \/ \E h \in Handlers, key \in Dimensions : CheckLimitErr(h, key)
    \/ \E h \in Handlers, up \in Upstreams : ServeProxy(h, up)
    \/ \E d \in TickSteps : Tick(d)

FrontSpec == FrontInit /\ [][FrontNext]_vars

(***************************************************************************)
(* RateLimitMiddleware under a one-second context: the wall clock moves in *)
(* steps shorter than CoordinatorTimeout while a request is being checked. *)
(***************************************************************************)
MaxDeadlineClock == 1000

\* what the wall clock may advance by between two calls of one request
ShortSteps == {500}

ShortTick(d) ==
    /\ clock + d <= MaxDeadlineClock
    /\ clock' = clock + d
    /\ UNCHANGED <<store, config, hs, nStarted, admitLog, admitted, limiter, ac, cl, lc, par, mm, pf>>

DeadlineInit ==
    /\ clock = 0
    /\ store = <<>>
    /\ config \in FrontConfigs
    /\ hs = [h \in Handlers |-> IdleHandler]
    /\ nStarted = 0
    /\ admitLog = {}
    /\ admitted = {}
    /\ limiter = "redis"
    /\ ac = NewAsyncCollector
    /\ cl = NoClassification
    /\ lc = NewLocalCache(CacheCallers)
    /\ par = NoParallelCheck
    /\ mm = NoRequestsInProgress
    /\ pf = NoApplication

DeadlineNext ==
    \/ \E h \in Handlers, r \in Requests : StartRequest(h, r)
    \/ \E h \in Handlers, key \in Dimensions : CheckLimitOK(h, key)
    \/ \E h \in Handlers, key \in Dimensions : CheckLimitErr(h, key)
    \/ \E h \in Handlers, status \in NextStatuses : Respond(h, status)
    \/ \E d \in ShortSteps : ShortTick(d)

DeadlineSpec == DeadlineInit /\ [][DeadlineNext]_vars

(***************************************************************************)
(* internal/ratelimit/dummy.go and the middleware built without a limiter. *)
(***************************************************************************)
\* the goroutines serving inbound requests side by side
StubHandlers == {"h1", "h2"}

\* time.Hour, in milliseconds
Hour == 3600000

\* a limiter that refuses whatever has no quota configured
DummyCheckLimit_DenyZero(limit, now) ==
    [Allowed |-> limit > 0, Remaining |-> 999999, ResetTime |-> now + Hour]

\* DummyLimiter.CheckMultipleLimits, lines 29-33: the result built per key
DummyCheckLimit(limit, now) ==
    [Allowed |-> TRUE, Remaining |-> 999999, ResetTime |-> now + Hour]

\* Handler, line 43, with a DummyLimiter: the call returns a result for
\* every key and touches nothing else
DummyCheckMultipleLimits(h) ==
    LET limits == LimitsOf(h)
    IN /\ hs[h].pc = "check"
       /\ limiter = "dummy"
       /\ hs' = [hs EXCEPT ![h].pending = {},
                           ![h].results = [d \in Dimensions |->
                                              DummyCheckLimit(limits[d].Limit, clock)],
                           ![h].verdicts = [d \in Dimensions |-> "admit"],
                           ![h].calledAt = clock,
                           ![h].pc = "respond"]
       /\ UNCHANGED <<clock, store, config, nStarted, admitLog, admitted, limiter, ac, cl, lc, par, mm, pf>>

\* Handler, line 43, with limiter == nil: the method call on a nil interface
\* value is a run-time panic; nothing was written and next was not called
NilCheckMultipleLimits(h) ==
    /\ hs[h].pc = "check"
    /\ limiter = "nil"
    /\ hs' = [hs EXCEPT ![h].pc = "panic", ![h].calledAt = clock]
    /\ UNCHANGED <<clock, store, config, nStarted, admitLog, admitted, limiter, ac, cl, lc, par, mm, pf>>

\* the server goes on with the next request after a handler panicked
StubStart(h, r) ==
    /\ hs[h].pc \in {"idle", "done", "panic"}
    /\ nStarted < MaxRequests
    /\ nStarted' = nStarted + 1
    /\ hs' = [hs EXCEPT ![h] = [IdleHandler EXCEPT !.pc = "check", !.req = r,
                                                   !.ip = ExtractIP(r),
                                                   !.path = NormalizePath(r.path),
                                                   !.pending = Dimensions,
                                                   !.start = clock]]
    /\ UNCHANGED <<clock, store, config, admitLog, admitted, limiter, ac, cl, lc, par, mm, pf>>

StubInit ==
    /\ clock = 0
    /\ store = <<>>
    /\ config \in FrontConfigs
    /\ hs = [h \in StubHandlers |-> IdleHandler]
    /\ nStarted = 0
    /\ admitLog = {}
    /\ admitted = {}
    /\ limiter \in {"dummy", "nil"}
    /\ ac = NewAsyncCollector
    /\ cl = NoClassification
    /\ lc = NewLocalCache(CacheCallers)
    /\ par = NoParallelCheck
    /\ mm = NoRequestsInProgress
    /\ pf = NoApplication

StubNext ==
    \/ \E h \in StubHandlers, r \in Requests : StubStart(h, r)
    \/ \E h \in StubHandlers : DummyCheckMultipleLimits(h)
    \/ \E h \in StubHandlers : NilCheckMultipleLimits(h)
    \/ \E h \in StubHandlers, status \in NextStatuses : Respond(h, status)
    \/ \E d \in TickSteps : Tick(d)

StubSpec == StubInit /\ [][StubNext]_vars

(***************************************************************************)
(* internal/metrics: AsyncCollector (the second part of optimized.go).     *)
(***************************************************************************)
\* make(chan metricEvent, 10000), scaled down
BufferCap == 2

\* batchSize: 100, scaled down
batchSize == 2

\* the calls to RecordRequestAsync / RecordRateLimitAsync of one run
MaxEvents == 3

intToString(i) ==
    CASE i = 200 -> "200"
      [] i = 404 -> "404"
      [] i = 429 -> "429"
      [] i = 500 -> "500"
      [] OTHER -> "other"

\* metricEvent as RecordRequestAsync fills it (Duration left out)
RequestEvent(method, path, status) ==
    [Type |-> "request", Method |-> method, Path |-> path, Status |-> intToString(status),
     LimitType |-> "", Key |-> "", Allowed |-> FALSE, Remaining |-> 0]

\* metricEvent as RecordRateLimitAsync fills it
RateLimitEvent(limitType, key, allowed, remaining) ==
    [Type |-> "ratelimit", Method |-> "", Path |-> "", Status |-> "",
     LimitType |-> limitType, Key |-> key, Allowed |-> allowed, Remaining |-> remaining]

\* the arguments the producers of the model call the collector with
RequestCalls == {[method |-> "GET", path |-> "/items/*", status |-> 503]}

RateLimitCalls ==
    {[limitType |-> "combined", key |-> "10.0.0.1:/items/*", allowed |-> TRUE, remaining |-> 5],
     [limitType |-> "combined", key |-> "10.0.0.1:/items/*", allowed |-> FALSE, remaining |-> 0]}

\* a plain send in place of the select: the producer waits while the
\* channel is full
trySend_Blocking(buffer, closed, event) ==
    IF closed THEN [outcome |-> "panic", buffer |-> buffer]
    ELSE IF Len(buffer) < BufferCap THEN [outcome |-> "sent", buffer |-> Append(buffer, event)]
    ELSE [outcome |-> "blocked", buffer |-> buffer]

\* select { case ac.buffer <- event: default: }: the send proceeds when the
\* channel has room, the default branch runs when it has none; a send on a
\* closed channel panics
trySend(buffer, closed, event) ==
    IF closed THEN [outcome |-> "panic", buffer |-> buffer]
    ELSE IF Len(buffer) < BufferCap THEN [outcome |-> "sent", buffer |-> Append(buffer, event)]
    ELSE [outcome |-> "dropped", buffer |-> buffer]

\* the body shared by RecordRequestAsync and RecordRateLimitAsync
Produce(event) ==
    LET s == trySend(ac.buffer, ac.closed, event)
    IN /\ ac.produced < MaxEvents
       /\ ac' = [ac EXCEPT !.buffer = s.buffer,
                           !.accepted = IF s.outcome = "sent" THEN Append(@, event) ELSE @,
                           !.produced = @ + 1,
                           !.last = s.outcome]
       /\ UNCHANGED <<clock, store, config, hs, nStarted, admitLog, admitted, limiter, cl, lc, par, mm, pf>>

RecordRequestAsync(method, path, status) == Produce(RequestEvent(method, path, status))

RecordRateLimitAsync(limitType, key, allowed, remaining) ==
    Produce(RateLimitEvent(limitType, key, allowed, remaining))

processRequestMetric(event) == <<RecordRequest(event.Method, event.Path, event.Status)>>

processRateLimitMetric(event) ==
    IF ~event.Allowed THEN <<RecordRateLimitBlocked(event.LimitType, event.Key)>> ELSE <<>>

\* processBatch: the calls on package metrics, event by event
RECURSIVE processBatch(_)
processBatch(events) ==
    IF events = <<>> THEN <<>>
    ELSE (IF Head(events).Type = "request" THEN processRequestMetric(Head(events))
          ELSE processRateLimitMetric(Head(events)))
         \o processBatch(Tail(events))

\* the worker returning on the closed channel without its last batch
workerClosed_NoFlush(batch) == <<>>

\* worker, lines 271-275: what is handed to processBatch once the channel
\* is closed and empty
workerClosed(batch) == batch

\* worker, case event, ok := <-ac.buffer with ok: lines 277-283
WorkerReceive ==
    LET batch == Append(ac.batch, Head(ac.buffer))
        full == Len(batch) >= batchSize
    IN /\ ac.worker = "select"
       /\ ac.buffer # <<>>
       /\ ac' = [ac EXCEPT !.buffer = Tail(@),
                           !.batch = IF full THEN <<>> ELSE batch,
                           !.processed = IF full THEN @ \o batch ELSE @,
                           !.calls = IF full THEN @ \o processBatch(batch) ELSE @]
       /\ UNCHANGED <<clock, store, config, hs, nStarted, admitLog, admitted, limiter, cl, lc, par, mm, pf>>

\* worker, case event, ok := <-ac.buffer with !ok: lines 271-275
WorkerClosed ==
    LET final == workerClosed(ac.batch)
    IN /\ ac.worker = "select"
       /\ ac.buffer = <<>>
       /\ ac.closed
       /\ ac' = [ac EXCEPT !.worker = "exited",
                           !.processed = @ \o final,
                           !.calls = @ \o processBatch(final)]
       /\ UNCHANGED <<clock, store, config, hs, nStarted, admitLog, admitted, limiter, cl, lc, par, mm, pf>>

\* the tick emptying the batch without handing it to processBatch
WorkerFlush_Discard ==
    /\ ac.worker = "select"
    /\ ac.tick
    /\ ac' = [ac EXCEPT !.tick = FALSE, !.batch = <<>>]
    /\ UNCHANGED <<clock, store, config, hs, nStarted, admitLog, admitted, limiter, cl, lc, par, mm, pf>>

\* worker, case <-ac.flushTicker.C: lines 285-290
WorkerFlush ==
    /\ ac.worker = "select"
    /\ ac.tick
    /\ ac' = [ac EXCEPT !.tick = FALSE,
                        !.batch = <<>>,
                        !.processed = @ \o ac.batch,
                        !.calls = @ \o processBatch(ac.batch)]
    /\ UNCHANGED <<clock, store, config, hs, nStarted, admitLog, admitted, limiter, cl, lc, par, mm, pf>>

\* the ticker fires: a tick is kept only while its channel is empty
TickerFire ==
    /\ ~ac.stopped
    /\ ~ac.tick
    /\ ac' = [ac EXCEPT !.tick = TRUE]
    /\ UNCHANGED <<clock, store, config, hs, nStarted, admitLog, admitted, limiter, cl, lc, par, mm, pf>>

\* Shutdown, line 319: Stop ends the ticks and leaves the channel as it is
ShutdownStop ==
    /\ ac.shutdown = "idle"
    /\ ac' = [ac EXCEPT !.stopped = TRUE, !.shutdown = "stopped"]
    /\ UNCHANGED <<clock, store, config, hs, nStarted, admitLog, admitted, limiter, cl, lc, par, mm, pf>>

\* Shutdown, line 320
ShutdownClose ==
    /\ ac.shutdown = "stopped"
    /\ ac' = [ac EXCEPT !.closed = TRUE, !.shutdown = "waiting"]
    /\ UNCHANGED <<clock, store, config, hs, nStarted, admitLog, admitted, limiter, cl, lc, par, mm, pf>>

\* Shutdown, lines 321-322: wg.Wait returns once worker has run wg.Done
ShutdownWait ==
    /\ ac.shutdown = "waiting"
    /\ ac.worker = "exited"
    /\ ac' = [ac EXCEPT !.shutdown = "returned"]
    /\ UNCHANGED <<clock, store, config, hs, nStarted, admitLog, admitted, limiter, cl, lc, par, mm, pf>>

Worker == WorkerReceive \/ WorkerClosed \/ WorkerFlush

Shutdown == ShutdownStop \/ ShutdownClose \/ ShutdownWait

CollectorInit ==
    /\ clock = 0
    /\ store = <<>>
    /\ config \in Configs
    /\ hs = [h \in Handlers |-> IdleHandler]
    /\ nStarted = 0
    /\ admitLog = {}
    /\ admitted = {}
    /\ limiter = "redis"
    /\ ac = NewAsyncCollector
    /\ cl = NoClassification
    /\ lc = NewLocalCache(CacheCallers)
    /\ par = NoParallelCheck
    /\ mm = NoRequestsInProgress
    /\ pf = NoApplication

CollectorNext ==
    \/ \E c \in RequestCalls : RecordRequestAsync(c.method, c.path, c.status)
    \/ \E c \in RateLimitCalls : RecordRateLimitAsync(c.limitType, c.key, c.allowed, c.remaining)
    \/ WorkerReceive
    \/ WorkerClosed
    \/ WorkerFlush
    \/ TickerFire
    \/ ShutdownStop
    \/ ShutdownClose
    \/ ShutdownWait

\* the worker goroutine and the caller of Shutdown are scheduled as long as
\* they can take a step; when Shutdown is called is up to the program
CollectorSpec ==
    CollectorInit /\ [][CollectorNext]_vars /\ WF_vars(Worker) /\ WF_vars(ShutdownClose \/ ShutdownWait)

\* the collector with its ticker running: time.Ticker delivers a tick
\* whenever its channel is empty and it has not been stopped, and the select
\* of worker picks among the cases that can proceed uniformly at random, so
\* no case that stays ready is passed over forever
RunningCollectorSpec ==
    /\ CollectorInit /\ [][CollectorNext]_vars
    /\ WF_vars(WorkerReceive) /\ WF_vars(WorkerClosed) /\ WF_vars(WorkerFlush)
    /\ WF_vars(TickerFire) /\ WF_vars(ShutdownClose \/ ShutdownWait)

(***************************************************************************)
(* The classifier of internal/ratelimit/utils.go applied to one request.   *)
(***************************************************************************)
ClassifierXFF ==
    {"", "203.0.113.10", "unknown, 203.0.113.10", "192.168.1.100, 10.0.0.1", "invalid-ip"}

ClassifierXRI == {"", "198.51.100.7", "bogus"}

ClassifierRemoteAddrs == {"192.168.1.100:12345", "192.168.1.100", "", ":8080"}

\* r.URL.Path is percent-decoded: "/items/MLA1/a\nb" is what the server makes
\* of "/items/MLA1/a%0Ab"
ClassifierPaths ==
    {"", "/", "?x=1", "/health", "/foo//", "/api/health/", "/items/",
     "/categories/MLA1", "/categories/MLA1/attributes?limit=10", "/categories//",
     "/items/MLA1/", "/items/MLA1/a\nb", "/users/42?fields=id", "/sites/MLA/search", "/sites"}

ApplyExtractIP ==
    /\ cl.r.method # ""
    /\ ~cl.ipDone
    /\ cl' = [cl EXCEPT !.ipDone = TRUE, !.ip = ExtractIP(cl.r)]
    /\ UNCHANGED <<clock, store, config, hs, nStarted, admitLog, admitted, limiter, ac, lc, par, mm, pf>>

ApplyNormalizePath ==
    /\ cl.r.method # ""
    /\ ~cl.pathDone
    /\ cl' = [cl EXCEPT !.pathDone = TRUE, !.path = NormalizePath(cl.r.path)]
    /\ UNCHANGED <<clock, store, config, hs, nStarted, admitLog, admitted, limiter, ac, lc, par, mm, pf>>

\* NormalizePath applied to its own result
ApplyNormalizePathAgain ==
    /\ cl.pathDone
    /\ ~cl.againDone
    /\ cl' = [cl EXCEPT !.againDone = TRUE, !.again = NormalizePath(cl.path)]
    /\ UNCHANGED <<clock, store, config, hs, nStarted, admitLog, admitted, limiter, ac, lc, par, mm, pf>>

ClassifierInit ==
    /\ clock = 0
    /\ store = <<>>
    /\ config \in Configs
    /\ hs = [h \in Handlers |-> IdleHandler]
    /\ nStarted = 0
    /\ admitLog = {}
    /\ admitted = {}
    /\ limiter = "redis"
    /\ ac = NewAsyncCollector
    /\ \E xff \in ClassifierXFF, xri \in ClassifierXRI,
          remoteAddr \in ClassifierRemoteAddrs, path \in ClassifierPaths :
          cl = [NoClassification EXCEPT !.r = [method |-> "GET", path |-> path, query |-> "",
                                               xff |-> xff, xri |-> xri,
                                               remoteAddr |-> remoteAddr]]
    /\ lc = NewLocalCache(CacheCallers)
    /\ par = NoParallelCheck
    /\ mm = NoRequestsInProgress
    /\ pf = NoApplication

ClassifierNext ==
    \/ ApplyExtractIP
    \/ ApplyNormalizePath
    \/ ApplyNormalizePathAgain

ClassifierSpec == ClassifierInit /\ [][ClassifierNext]_vars

(***************************************************************************)
(* internal/ratelimit/cluster.go, the reply handling of the two ledger     *)
(* clients and buildLimitConfigs, each applied to one input.               *)
(***************************************************************************)
\* the largest DEFAULT_RPS of the model
MaxDefaultRPS == 3

\* ClusterLimiter.addHashTag
addHashTag(key) ==
    LET colon == Index(key, ":")
        base == IF colon = 0 THEN key ELSE SubSeq(key, 1, colon - 1)
    IN "{" \o base \o "}:" \o key

Int64(n) == [isInt |-> TRUE, val |-> n]

\* what Eval / script.Run may hand back as result: the two replies of the
\* script, a reply that is no list, a list of three, and lists of two with
\* an element of another type (a bulk string, nil)
Replies ==
    { [isList |-> TRUE, elems |-> <<Int64(1), Int64(4)>>],
      [isList |-> TRUE, elems |-> <<Int64(0), Int64(0)>>],
      NoReply,
      [isList |-> TRUE, elems |-> <<Int64(1), Int64(4), Int64(0)>>],
      [isList |-> TRUE, elems |-> <<[isInt |-> FALSE, val |-> 0], Int64(4)>>],
      [isList |-> TRUE, elems |-> <<Int64(1), [isInt |-> FALSE, val |-> 0]>>] }

\* RedisLimiter.CheckLimit, lines 80-102: what it returns for a result
RedisCheckLimitReply(reply, now, win) ==
    IF ~reply.isList \/ Len(reply.elems) # 2
    THEN [err |-> TRUE, panic |-> FALSE, result |-> NoResult]
    ELSE IF ~reply.elems[1].isInt
    THEN [err |-> TRUE, panic |-> FALSE, result |-> NoResult]
    ELSE IF ~reply.elems[2].isInt
    THEN [err |-> TRUE, panic |-> FALSE, result |-> NoResult]
    ELSE [err |-> FALSE, panic |-> FALSE,
          result |-> [Allowed |-> reply.elems[1].val = 1,
                      Remaining |-> reply.elems[2].val,
                      ResetTime |-> now + win]]

\* ClusterLimiter.CheckLimit, lines 118-134: what it returns for a result;
\* values[0].(int64) without the two-value form panics on another type
ClusterCheckLimitReply(reply, now, win) ==
    IF ~reply.isList \/ Len(reply.elems) # 2
    THEN [err |-> FALSE, panic |-> FALSE,
          result |-> [Allowed |-> FALSE, Remaining |-> 0, ResetTime |-> now + win]]
    ELSE IF ~reply.elems[1].isInt \/ ~reply.elems[2].isInt
    THEN [err |-> FALSE, panic |-> TRUE, result |-> NoResult]
    ELSE [err |-> FALSE, panic |-> FALSE,
          result |-> [Allowed |-> reply.elems[1].val = 1,
                      Remaining |-> reply.elems[2].val,
                      ResetTime |-> now + win]]

\* the requests whose keys are built
ApplyRequests ==
    Requests \cup
    { [method |-> "GET", path |-> "/items/MLA1", query |-> "",
       xff |-> "", xri |-> "198.51.100.7", remoteAddr |-> "10.0.0.1:5000"] }

\* the three keys of pf.req, each as ClusterLimiter.CheckLimit sends it
ApplyAddHashTag ==
    /\ pf.req.method # ""
    /\ ~pf.tagDone
    /\ pf' = [pf EXCEPT !.tagDone = TRUE,
                        !.tagged = [d \in Dimensions |-> addHashTag(GetLimitKeys(pf.req)[d])]]
    /\ UNCHANGED <<clock, store, config, hs, nStarted, admitLog, admitted, limiter, ac, cl, lc, par, mm>>

\* both clients handed the same result of the script call
ApplyCheckLimitReply ==
    /\ pf.req.method # ""
    /\ ~pf.parseDone
    /\ pf' = [pf EXCEPT !.parseDone = TRUE,
                        !.parsed = [redis |-> RedisCheckLimitReply(pf.reply, clock, window),
                                    cluster |-> ClusterCheckLimitReply(pf.reply, clock, window)]]
    /\ UNCHANGED <<clock, store, config, hs, nStarted, admitLog, admitted, limiter, ac, cl, lc, par, mm>>

\* buildLimitConfigs for DEFAULT_RPS = pf.rps and no override
ApplyBuildLimitConfigs ==
    /\ pf.req.method # ""
    /\ ~pf.limitsDone
    /\ pf' = [pf EXCEPT !.limitsDone = TRUE,
                        !.limits = buildLimitConfigs(
                                       [TargetURL |-> "https://api.mercadolibre.com",
                                        DefaultRPS |-> pf.rps, IPRateLimit |-> <<>>,
                                        PathRateLimit |-> <<>>, IPPathRateLimit |-> <<>>],
                                       ExtractIP(pf.req), NormalizePath(pf.req.path))]
    /\ UNCHANGED <<clock, store, config, hs, nStarted, admitLog, admitted, limiter, ac, cl, lc, par, mm>>

ApplyInit ==
    /\ clock = 0
    /\ store = <<>>
    /\ config \in Configs
    /\ hs = [h \in Handlers |-> IdleHandler]
    /\ nStarted = 0
    /\ admitLog = {}
    /\ admitted = {}
    /\ limiter = "redis"
    /\ ac = NewAsyncCollector
    /\ cl = NoClassification
    /\ lc = NewLocalCache(CacheCallers)
    /\ par = NoParallelCheck
    /\ mm = NoRequestsInProgress
    /\ \E r \in ApplyRequests, rps \in 1..MaxDefaultRPS, reply \in Replies :
          pf = [NoApplication EXCEPT !.req = r, !.rps = rps, !.reply = reply]

ApplyNext ==
    \/ ApplyAddHashTag
    \/ ApplyCheckLimitReply
    \/ ApplyBuildLimitConfigs

ApplySpec == ApplyInit /\ [][ApplyNext]_vars

(***************************************************************************)
(* internal/middleware/metrics.go: the observation wrapper and the         *)
(* requests-in-progress gauge.                                             *)
(***************************************************************************)
\* the number of requests that enter the wrapper in one run
MaxWrapped == 3

\* r.Method and r.URL.Path of the requests that enter the wrapper
WrapRequests ==
    { [method |-> m, path |-> p] :
        m \in {"GET", "POST"}, p \in {"/categories/MLA1", "/categories/MLA2", "/users/42/"} }

\* GaugeVec / CounterVec: the value of a child, 0 before its creation
Child(vec, labels) == IF labels \in DOMAIN vec THEN vec[labels] ELSE 0

\* metrics.IncRequestsInProgress
IncRequestsInProgress(g, method, path) ==
    LET labels == <<method, path>>
    IN [l \in DOMAIN g \cup {labels} |->
           IF l = labels THEN Child(g, l) + 1 ELSE g[l]]

\* metrics.DecRequestsInProgress
DecRequestsInProgress(g, method, path) ==
    LET labels == <<method, path>>
    IN [l \in DOMAIN g \cup {labels} |->
           IF l = labels THEN Child(g, l) - 1 ELSE g[l]]

\* metrics.RecordRequest (requestsTotal)
metricsRecordRequest(t, method, path, status) ==
    LET labels == <<method, path, status>>
    IN [l \in DOMAIN t \cup {labels} |->
           IF l = labels THEN Child(t, l) + 1 ELSE t[l]]

\* Handler up to next.ServeHTTP: the gauge of (method, NormalizePath(path))
\* goes up and rw starts with statusCode 200
WrapEnter(h) ==
    /\ mm.w[h].pc = "out"
    /\ mm.served < MaxWrapped
    /\ \E r \in WrapRequests :
         LET path == NormalizePath(r.path)
         IN mm' = [mm EXCEPT !.gauge = IncRequestsInProgress(mm.gauge, r.method, path),
                             !.w[h] = [pc |-> "next", method |-> r.method, path |-> path,
                                       statusCode |-> 200, written |-> FALSE],
                             !.served = @ + 1]
    /\ UNCHANGED <<clock, store, config, hs, nStarted, admitLog, admitted, limiter, ac, cl, lc, par, pf>>

\* responseWriter.WriteHeader, called by the wrapped handler
WrapWriteHeader(h) ==
    /\ mm.w[h].pc = "next"
    /\ ~mm.w[h].written
    /\ \E code \in {200, 429, 502} :
         mm' = [mm EXCEPT !.w[h].statusCode = code, !.w[h].written = TRUE]
    /\ UNCHANGED <<clock, store, config, hs, nStarted, admitLog, admitted, limiter, ac, cl, lc, par, pf>>

\* next.ServeHTTP returns: RecordRequest, then the deferred
\* DecRequestsInProgress
WrapReturn(h) ==
    /\ mm.w[h].pc = "next"
    /\ mm' = [mm EXCEPT !.total = metricsRecordRequest(mm.total, mm.w[h].method, mm.w[h].path,
                                                mm.w[h].statusCode),
                        !.gauge = DecRequestsInProgress(mm.gauge, mm.w[h].method, mm.w[h].path),
                        !.w[h] = OutsideWrapper]
    /\ UNCHANGED <<clock, store, config, hs, nStarted, admitLog, admitted, limiter, ac, cl, lc, par, pf>>

\* a wrapper whose decrement is not deferred: a panic skips it
WrapPanic_NoDefer(h) ==
    /\ mm.w[h].pc = "next"
    /\ mm' = [mm EXCEPT !.w[h] = OutsideWrapper]
    /\ UNCHANGED <<clock, store, config, hs, nStarted, admitLog, admitted, limiter, ac, cl, lc, par, pf>>

\* next.ServeHTTP panics: RecordRequest is skipped, the deferred
\* DecRequestsInProgress runs while the panic unwinds
WrapPanic(h) ==
    /\ mm.w[h].pc = "next"
    /\ mm' = [mm EXCEPT !.gauge = DecRequestsInProgress(mm.gauge, mm.w[h].method, mm.w[h].path),
                        !.w[h] = OutsideWrapper]
    /\ UNCHANGED <<clock, store, config, hs, nStarted, admitLog, admitted, limiter, ac, cl, lc, par, pf>>

WrapNext ==
    \E h \in WrapHandlers :
        \/ WrapEnter(h)
        \/ WrapWriteHeader(h)
        \/ WrapReturn(h)
        \/ WrapPanic(h)

WrapSpec == Init /\ [][WrapNext]_vars

(***************************************************************************)
(* internal/ratelimit/optimized.go: LocalCache and CheckLimitOptimized.    *)
(***************************************************************************)
\* the calls of CheckLimitOptimized in one run
MaxCalls == 3

\* the time the cache runs for, in milliseconds
MaxCacheClock == 2000

\* NewLocalCache(1*time.Second, logger)
ttl == 1000

\* sync.Map.Delete
MapDelete(data, key) == [k \in DOMAIN data \ {key} |-> data[k]]

\* CheckLimitOptimized is entered with the combinedKey of
\* checkRateLimitsOptimized and a limit
CacheCall(c) ==
    /\ lc.g[c].pc = "idle"
    /\ lc.calls < MaxCalls
    /\ \E key \in {"10.0.0.1:/users/*"}, limit \in {1} :
         lc' = [lc EXCEPT !.g[c] = [IdleCaller EXCEPT !.pc = "get", !.key = key,
                                                     !.limit = limit],
                          !.calls = @ + 1]
    /\ UNCHANGED <<clock, store, config, hs, nStarted, admitLog, admitted, limiter, ac, cl, par, mm, pf>>

\* LocalCache.Get, lines 37-41: Load, and the answer from a young entry
CacheGetLoad(c) ==
    /\ lc.g[c].pc = "get"
    /\ LET key == lc.g[c].key
       IN IF key \notin DOMAIN lc.data
          THEN lc' = [lc EXCEPT !.g[c].pc = "redis"]
          ELSE LET entry == lc.data[key]
               IN IF clock - entry.timestamp < ttl
                  THEN lc' = [lc EXCEPT !.g[c].pc = "done",
                                        !.g[c].source = "cache",
                                        !.g[c].result = [Allowed |-> entry.allowed,
                                                         Remaining |-> entry.remaining,
                                                         ResetTime |-> clock + window]]
                  ELSE lc' = [lc EXCEPT !.g[c].pc = "delete",
                                        !.g[c].seen = [Allowed |-> entry.allowed,
                                                       Remaining |-> entry.remaining,
                                                       ResetTime |-> entry.timestamp]]
    /\ UNCHANGED <<clock, store, config, hs, nStarted, admitLog, admitted, limiter, ac, cl, par, mm, pf>>

\* LocalCache.Get, line 43: Delete of the key whose entry was found expired
CacheGetDelete(c) ==
    /\ lc.g[c].pc = "delete"
    /\ lc' = [lc EXCEPT !.data = MapDelete(lc.data, lc.g[c].key),
                        !.g[c].pc = "redis"]
    /\ UNCHANGED <<clock, store, config, hs, nStarted, admitLog, admitted, limiter, ac, cl, par, mm, pf>>

\* orl.CheckLimit returns a result: ctx is not done (a deadline of 0 stands
\* for a ctx without deadline)
CacheCheckLimitOK(c) ==
    /\ lc.g[c].pc = "redis"
    /\ ~(lc.g[c].deadline > 0 /\ clock >= lc.g[c].deadline)
    /\ LET run == CheckLimit(lc.g[c].key, lc.g[c].limit, window)
       IN /\ store' = SetBucket(lc.g[c].key, run.zset)
          /\ lc' = [lc EXCEPT !.g[c].pc = "set",
                              !.g[c].source = "store",
                              !.g[c].inserted = run.result.Allowed,
                              !.g[c].result = run.result]
    /\ UNCHANGED <<clock, config, hs, nStarted, admitLog, admitted, limiter, ac, cl, par, mm, pf>>

\* orl.CheckLimit returns an error (store down, ctx done): fail open
CacheCheckLimitErr(c) ==
    /\ lc.g[c].pc = "redis"
    /\ lc' = [lc EXCEPT !.g[c].pc = "done",
                        !.g[c].source = "failopen",
                        !.g[c].result = [Allowed |-> TRUE,
                                         Remaining |-> lc.g[c].limit - 1,
                                         ResetTime |-> clock + window]]
    /\ UNCHANGED <<clock, store, config, hs, nStarted, admitLog, admitted, limiter, ac, cl, par, mm, pf>>

\* LocalCache.Set, called with the result of the store
CacheSet(c) ==
    /\ lc.g[c].pc = "set"
    /\ lc' = [lc EXCEPT !.data = [k \in DOMAIN lc.data \cup {lc.g[c].key} |->
                                        IF k = lc.g[c].key
                                        THEN [allowed |-> lc.g[c].result.Allowed,
                                              remaining |-> lc.g[c].result.Remaining,
                                              timestamp |-> clock]
                                        ELSE lc.data[k]],
                        !.g[c].pc = "done"]
    /\ UNCHANGED <<clock, store, config, hs, nStarted, admitLog, admitted, limiter, ac, cl, par, mm, pf>>

\* CheckLimitOptimized returns to its caller
CacheReturn(c) ==
    /\ lc.g[c].pc = "done"
    /\ lc' = [lc EXCEPT !.answers = @ \cup {[n |-> Cardinality(lc.answers) + 1,
                                             key |-> lc.g[c].key,
                                             limit |-> lc.g[c].limit,
                                             Allowed |-> lc.g[c].result.Allowed,
                                             source |-> lc.g[c].source,
                                             inserted |-> lc.g[c].inserted,
                                             at |-> clock]},
                        !.g[c] = IdleCaller]
    /\ UNCHANGED <<clock, store, config, hs, nStarted, admitLog, admitted, limiter, ac, cl, par, mm, pf>>

\* cleanup, lines 61-65: one tick of the ticker; Range finds the entries
\* older than ttl
SweepRange ==
    /\ clock > 0
    /\ clock % (ttl \div 2) = 0
    /\ lc.victims = {}
    /\ LET old == {k \in DOMAIN lc.data : clock - lc.data[k].timestamp > ttl}
       IN /\ old # {}
          /\ lc' = [lc EXCEPT !.victims = old]
    /\ UNCHANGED <<clock, store, config, hs, nStarted, admitLog, admitted, limiter, ac, cl, par, mm, pf>>

\* cleanup, line 66: Delete of a key whose entry Range found too old
SweepDelete ==
    /\ \E key \in lc.victims :
         lc' = [lc EXCEPT !.data = MapDelete(lc.data, key),
                          !.victims = @ \ {key}]
    /\ UNCHANGED <<clock, store, config, hs, nStarted, admitLog, admitted, limiter, ac, cl, par, mm, pf>>

CacheTick(d) ==
    /\ clock + d <= MaxCacheClock
    /\ clock' = clock + d
    /\ UNCHANGED <<store, config, hs, nStarted, admitLog, admitted, limiter, ac, cl, lc, par, mm, pf>>

CacheNext ==
    \/ \E c \in CacheCallers :
          \/ CacheCall(c)
          \/ CacheGetLoad(c)
          \/ CacheGetDelete(c)
          \/ CacheCheckLimitOK(c)
          \/ CacheCheckLimitErr(c)
          \/ CacheSet(c)
          \/ CacheReturn(c)
    \/ SweepRange
    \/ SweepDelete
    \/ \E d \in {500} : CacheTick(d)

CacheSpec == Init /\ [][CacheNext]_vars

(***************************************************************************)
(* internal/ratelimit/optimized.go: CheckMultipleLimitsOptimized.          *)
(***************************************************************************)
\* the calls of CheckMultipleLimitsOptimized in one run
MaxParallelCalls == 2

\* the dimensions the caller asks for
ParDimensions == {"ip", "path"}

\* a loop that stops after the first result
LoopBound_First(limits) == 1

\* len(limits), the bound of the collecting loop
LoopBound(limits) == Cardinality(DOMAIN limits)

\* cap(resultChan)
ChanCap(limits) == Cardinality(DOMAIN limits)

\* lines 124-142: results and resultChan are made and one goroutine per key
\* of limits is started (task names the goroutine of a key); ctx has the
\* caller's deadline or none
ParSpawn ==
    /\ par.phase \in {"idle", "returned"}
    /\ par.calls < MaxParallelCalls
    /\ \E r \in {x \in Requests : x.xff = ""}, timed \in BOOLEAN :
         LET keys == GetLimitKeys(r)
             cfgs == buildLimitConfigs(config, ExtractIP(r), NormalizePath(r.path))
             limits == [key \in {keys[d] : d \in ParDimensions} |->
                           LET d == CHOOSE x \in ParDimensions : keys[x] = key
                           IN [Limit |-> cfgs[d].Limit, Window |-> cfgs[d].Window,
                               task |-> d]]
             deadline == IF timed THEN clock + CoordinatorTimeout ELSE 0
         IN /\ par' = [phase |-> "collecting", resultChan |-> <<>>, i |-> 0,
                       results |-> <<>>, deadline |-> deadline, limits |-> limits,
                       calls |-> par.calls + 1]
            /\ lc' = [lc EXCEPT !.g = [d \in ParDimensions |->
                          LET key == CHOOSE k \in DOMAIN limits : limits[k].task = d
                          IN [IdleCaller EXCEPT !.pc = "get", !.key = key,
                                                !.limit = limits[key].Limit,
                                                !.deadline = deadline]]]
    /\ UNCHANGED <<clock, store, config, hs, nStarted, admitLog, admitted, limiter, ac, cl, mm, pf>>

\* line 141: the goroutine sends its pair; a send on a full channel blocks
ParSend(c) ==
    /\ par.phase # "idle"
    /\ lc.g[c].pc = "done"
    /\ Len(par.resultChan) < ChanCap(par.limits)
    /\ par' = [par EXCEPT !.resultChan = Append(@, [key |-> lc.g[c].key,
                                                    result |-> lc.g[c].result,
                                                    err |-> FALSE])]
    /\ lc' = [lc EXCEPT !.g[c].pc = "sent"]
    /\ UNCHANGED <<clock, store, config, hs, nStarted, admitLog, admitted, limiter, ac, cl, mm, pf>>

\* lines 145-155: one round of the collecting loop
ParReceive ==
    /\ par.phase = "collecting"
    /\ par.i < LoopBound(par.limits)
    /\ par.resultChan # <<>>
    /\ LET pair == Head(par.resultChan)
       IN par' = [par EXCEPT !.resultChan = Tail(@),
                             !.i = @ + 1,
                             !.results = IF pair.err THEN @
                                         ELSE [k \in DOMAIN @ \cup {pair.key} |->
                                                  IF k = pair.key THEN pair.result ELSE @[k]]]
    /\ UNCHANGED <<clock, store, config, hs, nStarted, admitLog, admitted, limiter, ac, cl, lc, mm, pf>>

\* line 157: return results, nil
ParReturn ==
    /\ par.phase = "collecting"
    /\ par.i >= LoopBound(par.limits)
    /\ par' = [par EXCEPT !.phase = "returned"]
    /\ UNCHANGED <<clock, store, config, hs, nStarted, admitLog, admitted, limiter, ac, cl, lc, mm, pf>>

\* one step of a spawned goroutine
ParTask(c) ==
    \/ CacheGetLoad(c)
    \/ CacheGetDelete(c)
    \/ CacheCheckLimitOK(c)
    \/ CacheCheckLimitErr(c)
    \/ CacheSet(c)
    \/ ParSend(c)

ParInit ==
    /\ clock = 0
    /\ store = <<>>
    /\ config \in Configs
    /\ hs = [h \in Handlers |-> IdleHandler]
    /\ nStarted = 0
    /\ admitLog = {}
    /\ admitted = {}
    /\ limiter = "redis"
    /\ ac = NewAsyncCollector
    /\ cl = NoClassification
    /\ lc = NewLocalCache(ParDimensions)
    /\ par = NoParallelCheck
    /\ mm = NoRequestsInProgress
    /\ pf = NoApplication

ParNext ==
    \/ ParSpawn
    \/ \E c \in ParDimensions : ParTask(c)
    \/ ParReceive
    \/ ParReturn
    \/ SweepRange
    \/ SweepDelete
    \/ \E d \in {1000} : CacheTick(d)

\* the Go scheduler runs every goroutine that can take a step
ParSpec ==
    /\ ParInit
    /\ [][ParNext]_vars
    /\ WF_vars(\E c \in ParDimensions : ParTask(c))
    /\ WF_vars(ParReceive \/ ParReturn)

(***************************************************************************)
(* Properties.                                                             *)
(***************************************************************************)
\* handler h has finished serving its request
Done(h) == hs[h].pc = "done"

\* in this step the CheckLimit call of handler h on key returned a result
Called(h, key) ==
    /\ hs[h].pc = "check"
    /\ key \in hs[h].pending
    /\ key \in DOMAIN hs'[h].results

\* the members of a sorted set that are inside the window ending at now
Live(zset, now) == {m \in zset : m.score > now - window}

Min(S) == CHOOSE x \in S : \A y \in S : x <= y

JSON429 == "{\"error\":\"rate_limit_exceeded\",\"message\":\"Too many requests\"}"

\* C1: a request is denied only on account of requests that share its
\* source or its route class: a request answered 429 was preceded by an
\* admitted request with the same source identity or the same route class.
C1_DenyOnlyFromSharedPayload ==
    \A h \in Handlers :
        (Done(h) /\ hs[h].resp.status = 429) => hs[h].shared

\* C2: admit bound: for every admitted check, the admitted checks on the same
\* bucket whose timestamps lie in the window ending at its timestamp number
\* at most the limit in force on that bucket.
C2_AdmitBound ==
    \A e \in admitLog :
        LET inWindow == {x \in admitLog :
                            x.key = e.key /\ x.ts > e.ts - window /\ x.ts <= e.ts}
        IN \E x \in inWindow : Cardinality(inWindow) <= x.limit

\* C3: every admitted check increases the cardinality of its bucket by exactly
\* one over the cardinality counted after eviction.
C3_AdmitAddsOneMember ==
    [][\A h \in Handlers, key \in Dimensions :
          (Called(h, key) /\ hs'[h].results[key].Allowed) =>
              Cardinality(BucketOf(store', key)) = Cardinality(Live(Bucket(key), clock)) + 1]_vars

\* C4: when all three checks returned a verdict, the request reaches the next
\* handler iff all three verdicts admit; with a deny it is answered 429 and
\* the next handler is not invoked.
C4_ForwardIffAllAdmit ==
    \A h \in Handlers :
        (Done(h) /\ ~hs[h].err) =>
            /\ DOMAIN hs[h].results = Dimensions
            /\ hs[h].resp.next = 1 <=> \A d \in Dimensions : hs[h].results[d].Allowed
            /\ (\E d \in Dimensions : ~hs[h].results[d].Allowed) =>
                   (hs[h].resp.status = 429 /\ hs[h].resp.next = 0)

C4_Witness ==
    \E h \in Handlers :
        /\ Done(h) /\ ~hs[h].err
        /\ hs[h].resp.status = 429
        /\ hs[h].resp.next = 0
        /\ \E d1, d2 \in Dimensions : ~hs[h].results[d1].Allowed /\ hs[h].results[d2].Allowed

\* C5: fail-open: a request whose ledger calls all failed is passed to the
\* next handler and the client gets that handler's response, not a 429 and
\* not an error written by the middleware.
C5_FailOpen ==
    \A h \in Handlers :
        (Done(h) /\ hs[h].err /\ \A d \in DOMAIN hs[h].verdicts : hs[h].verdicts[d] = "error") =>
            /\ hs[h].resp.next = 1
            /\ hs[h].resp.status \in NextStatuses
            /\ hs[h].resp.status # 429
            /\ hs[h].resp.blocked = <<>>

C5_Witness ==
    \E h \in Handlers :
        /\ Done(h) /\ hs[h].err
        /\ \A d \in DOMAIN hs[h].verdicts : hs[h].verdicts[d] = "error"
        /\ hs[h].resp.next = 1
        /\ hs[h].resp.status = 200

\* C6: a request with at least one denied dimension is answered 429, also
\* when the check of another dimension failed with a store error.
C6_DenyBeatsError ==
    \A h \in Handlers :
        (Done(h) /\ \E d \in DOMAIN hs[h].verdicts : hs[h].verdicts[d] = "deny") =>
            (hs[h].resp.status = 429 /\ hs[h].resp.next = 0)

\* C7: a request answered 429 has changed none of the buckets of its three
\* dimensions.
C7_DeniedRequestChangesNoBucket ==
    \A h \in Handlers :
        (Done(h) /\ hs[h].resp.status = 429) => hs[h].changed = {}

C9_AdmitIffBelowLimit ==
    [][\A h \in Handlers, key \in Dimensions :
          Called(h, key) =>
              LET c == Cardinality(Live(Bucket(key), clock))
                  limit == LimitsOf(h)[key].Limit
                  result == hs'[h].results[key]
              IN /\ result.Allowed <=> c < limit
                 /\ result.Allowed => (result.Remaining = limit - c - 1 /\ result.Remaining >= 0)
                 /\ ~result.Allowed => result.Remaining = 0]_vars

C9_Witness ==
    \E h \in Handlers, k1, k2 \in Dimensions :
        /\ k1 \in DOMAIN hs[h].results /\ k2 \in DOMAIN hs[h].results
        /\ ~hs[h].results[k1].Allowed /\ hs[h].results[k1].Remaining = 0
        /\ Cardinality(Bucket(k1)) = 2
        /\ hs[h].results[k2].Allowed /\ hs[h].results[k2].Remaining = 1

\* C10: every 429 carries Retry-After of at least 1 second, the three
\* X-RateLimit headers and the rate_limit_exceeded JSON body.
C10_DenyHeaders ==
    \A h \in Handlers :
        (Done(h) /\ hs[h].resp.status = 429) =>
            /\ {"Retry-After", "X-RateLimit-Limit", "X-RateLimit-Remaining",
                "X-RateLimit-Reset"} \subseteq DOMAIN hs[h].resp.headers
            /\ hs[h].resp.headers["Retry-After"] >= 1
            /\ hs[h].resp.body = JSON429

\* C11: on an admitted request whose three checks all returned a verdict,
\* X-RateLimit-Remaining is the minimum remaining over the verdicts and
\* X-RateLimit-Reset the earliest reset time over them in unix seconds,
\* whatever the order in which the verdicts were visited.
C11_AdmitHeadersMinAndEarliest ==
    \A h \in Handlers :
        (Done(h) /\ ~hs[h].err /\ hs[h].resp.next = 1) =>
            /\ DOMAIN hs[h].results = Dimensions
            /\ hs[h].resp.headers["X-RateLimit-Remaining"] =
                   Min({hs[h].results[d].Remaining : d \in Dimensions})
            /\ hs[h].resp.headers["X-RateLimit-Reset"] =
                   Unix(Min({hs[h].results[d].ResetTime : d \in Dimensions}))

C11_Witness ==
    \E h \in Handlers, d1, d2 \in Dimensions :
        /\ Done(h) /\ ~hs[h].err /\ hs[h].resp.next = 1
        /\ hs[h].results[d1].Remaining < hs[h].results[d2].Remaining
        /\ Unix(hs[h].results[d1].ResetTime) > Unix(hs[h].results[d2].ResetTime)

\* C12: every response of a request that was forwarded to the next handler
\* carries X-RateLimit-Limit, X-RateLimit-Remaining and X-RateLimit-Reset,
\* also when it was admitted by fail-open after a ledger error.
C12_ForwardedCarriesHeaders ==
    \A h \in Handlers :
        (Done(h) /\ hs[h].resp.next = 1) =>
            {"X-RateLimit-Limit", "X-RateLimit-Remaining", "X-RateLimit-Reset"}
                \subseteq DOMAIN hs[h].resp.headers

\* the first denying dimension in the order source, route, source x route
FirstDenier(results) ==
    IF ~results["ip"].Allowed THEN "ip"
    ELSE IF ~results["path"].Allowed THEN "path"
    ELSE "ip_path"

\* C13: when a request is denied, the dimension reported (the label of the
\* blocked metric, the remaining and reset values of the 429) is the first
\* denier in the fixed order source, route, source x route.
C13_FirstDenierReported ==
    \A h \in Handlers :
        (Done(h) /\ hs[h].resp.status = 429) =>
            LET d == FirstDenier(hs[h].results)
            IN /\ hs[h].resp.blocked[1] = d
               /\ hs[h].resp.headers["X-RateLimit-Remaining"] = hs[h].results[d].Remaining
               /\ hs[h].resp.headers["X-RateLimit-Reset"] = Unix(hs[h].results[d].ResetTime)

\* the calls of one kind that package metrics received for the request of h
EventsOf(h, kind) == {i \in DOMAIN hs[h].metrics : hs[h].metrics[i].kind = kind}

\* the request of h took exactly one response path: the next handler, or the
\* 429 written by the middleware
OnePath(h) ==
    /\ hs[h].resp.next \in {0, 1}
    /\ hs[h].resp.next = 0 <=> (hs[h].resp.status = 429 /\ hs[h].resp.blocked # <<>>)

JSON502 == "{\"error\":\"service_unavailable\",\"message\":\"Upstream service error\"}"

\* C14: a request under /no-ratelimit/ is sent to the upstream with the
\* prefix removed and the query preserved, and is answered with what the
\* upstream did, without any call to the limiter and without a change to any
\* bucket, whatever the buckets hold and also when all limits are 0.
C14_BypassReachesUpstream ==
    \A h \in Handlers :
        (Done(h) /\ isNoRateLimitRoute(hs[h].req.path)) =>
            /\ hs[h].sent = <<[method |-> hs[h].req.method,
                               path |-> TrimPrefix(hs[h].req.path, "/no-ratelimit"),
                               query |-> hs[h].req.query]>>
            /\ hs[h].verdicts = <<>>
            /\ hs[h].changed = {}
            /\ hs[h].resp.status # 429
            /\ \A i \in DOMAIN hs[h].got :
                   ~hs[h].got[i].err => hs[h].resp.status = hs[h].got[i].status

\* C15: the proxy issues at most one upstream request for an inbound request;
\* when the upstream answers 3xx with a Location header the client receives
\* that status and that Location, on the main path and on the bypass path.
C15_RedirectRelayed ==
    \A h \in Handlers :
        Done(h) =>
            /\ Len(hs[h].sent) <= 1
            /\ Len(hs[h].got) = Len(hs[h].sent)
            /\ \A i \in DOMAIN hs[h].got :
                   LET up == hs[h].got[i]
                   IN (~up.err /\ up.status \in 300..399 /\ "Location" \in DOMAIN up.headers) =>
                          /\ hs[h].resp.status = up.status
                          /\ "Location" \in DOMAIN hs[h].resp.headers
                          /\ hs[h].resp.headers["Location"] = up.headers["Location"]

C15_Witness ==
    \E h \in Handlers :
        /\ Done(h) /\ hs[h].route = "bypass"
        /\ Len(hs[h].sent) = 1
        /\ hs[h].got[1].status = 302
        /\ hs[h].resp.status = 302
        /\ hs[h].resp.headers["Location"] = "https://elsewhere"

\* C16: a transport error while forwarding ends the response with status 502
\* and the service_unavailable JSON body, on the main path and on the bypass
\* path alike.
C16_TransportError502JSON ==
    \A h \in Handlers :
        (Done(h) /\ \E i \in DOMAIN hs[h].got : hs[h].got[i].err) =>
            (hs[h].resp.status = 502 /\ hs[h].resp.body = JSON502)

\* C17: the only 5xx the proxy originates is the 502 for an upstream
\* transport failure; any other 5xx it answers is the status the upstream
\* answered.
C17_No5xxForInternalReasons ==
    \A h \in Handlers :
        (Done(h) /\ hs[h].resp.status \in 500..599) =>
            \E i \in DOMAIN hs[h].got :
                \/ hs[h].got[i].err /\ hs[h].resp.status = 502
                \/ ~hs[h].got[i].err /\ hs[h].got[i].status = hs[h].resp.status

\* C18: every response for a non-reserved path (forwarded, 429, 502, bypass)
\* carries Cache-Control: no-cache, no-store, must-revalidate, Pragma:
\* no-cache, Expires: 0 and X-Proxy-By.
C18_HygieneHeaders ==
    \A h \in Handlers :
        (Done(h) /\ hs[h].route \in {"proxy", "bypass"}) =>
            /\ {"Cache-Control", "Pragma", "Expires", "X-Proxy-By"}
                   \subseteq DOMAIN hs[h].resp.headers
            /\ hs[h].resp.headers["Cache-Control"] = "no-cache, no-store, must-revalidate"
            /\ hs[h].resp.headers["Pragma"] = "no-cache"
            /\ hs[h].resp.headers["Expires"] = "0"

\* the request of h is answered in this step, by the handler alone: no call
\* to the limiter, no bucket changed, nothing sent to the upstream
AnsweredLocally(h) ==
    /\ hs[h].pc \in {"idle", "done"}
    /\ store' = store
    /\ hs'[h].verdicts = <<>>
    /\ hs'[h].changed = {}
    /\ hs'[h].sent = <<>>
    /\ hs'[h].resp.status = 200

\* C19: GET /health and GET /status are answered locally with 200 (status
\* "healthy", an uptime field), without the limiter, a bucket change or an
\* upstream request; any other method and path goes through the middleware
\* chain or the bypass.
C19_ReservedPathsLocal ==
    [][\A h \in Handlers :
          (hs'[h] # hs[h] /\ hs'[h].pc = "done") =>
              LET r == hs'[h].req
              IN /\ (r.method = "GET" /\ r.path = "/health") =>
                        (AnsweredLocally(h) /\ hs'[h].resp.json["status"] = "healthy")
                 /\ (r.method = "GET" /\ r.path = "/status") =>
                        (AnsweredLocally(h) /\ "uptime" \in DOMAIN hs'[h].resp.json)
                 /\ ~(r.method = "GET" /\ r.path \in {"/health", "/status"}) =>
                        /\ hs'[h].route \in {"proxy", "bypass"}
                        /\ hs'[h].route = "proxy" => hs[h].pc = "respond"
                        /\ hs'[h].metrics # <<>>]_vars

C19_Witness ==
    \E h \in Handlers :
        /\ Done(h) /\ hs[h].req.method = "GET" /\ hs[h].req.path = "/health"
        /\ hs[h].resp.status = 200
        /\ Cardinality(Bucket("ip_path")) >= buildLimitConfigs(config, "10.0.0.1", "/health")["ip_path"].Limit
        /\ Bucket("ip_path") # {}

(***************************************************************************)
(* The asynchronous metrics collector.                                     *)
(***************************************************************************)
\* C21: a call of RecordRequestAsync or RecordRateLimitAsync never waits:
\* on a collector that has not been shut down it ends at once, with the
\* event sent or dropped, whether the queue is empty, partly filled or full
\* and wherever the worker is.
C21_ProducersNeverBlock ==
    /\ ac.last # "blocked"
    /\ (ac.produced > 0 /\ ~ac.closed) => ac.last \in {"sent", "dropped"}

C21_Witness ==
    /\ ac.last = "dropped"
    /\ Len(ac.buffer) = BufferCap
    /\ ac.worker = "select"
    /\ ac.processed = <<>>

\* the value of a dropped-events counter: the increments made on package
\* metrics for dropped events
DroppedEvents == Cardinality({i \in DOMAIN ac.calls : ac.calls[i].kind = "dropped"})

\* C22: at every moment the events produced are the events accepted into
\* the queue plus the value of the dropped-events counter.
C22_ProducedIsAcceptedPlusDropped ==
    ac.produced = Len(ac.accepted) + DroppedEvents

\* C23: once Shutdown has returned the worker has exited, the queue is
\* empty and the events handed to processBatch are the accepted events,
\* each once and in order; and a Shutdown that was called returns.
C23_ShutdownDrainsAndReturns ==
    /\ [](ac.shutdown = "returned" =>
             /\ ac.worker = "exited"
             /\ ac.buffer = <<>>
             /\ ac.processed = ac.accepted)
    /\ ((ac.shutdown # "idle") ~> (ac.shutdown = "returned"))

C23_Witness ==
    /\ ac.shutdown = "returned"
    /\ ac.produced = MaxEvents
    /\ Len(ac.processed) >= 2
    /\ Len(ac.processed) % batchSize # 0

(***************************************************************************)
(* The classifier.                                                         *)
(***************************************************************************)
\* C24: ExtractIP returns a non-empty source for every request and
\* NormalizePath a non-empty route class for every path.
C24_Totality ==
    /\ cl.ipDone => cl.ip # ""
    /\ cl.pathDone => cl.path # ""

\* C25: NormalizePath applied to its own result returns that result.
C25_NormalizeIdempotent ==
    cl.againDone => cl.again = cl.path

KnownPrefixes == {"categories", "items", "users", "sites"}

\* the path without its query string and without one trailing slash
Stripped(path) ==
    LET q == Index(path, "?")
        bare == IF q = 0 THEN path ELSE SubSeq(path, 1, q - 1)
    IN IF Len(bare) > 1 /\ HasSuffix(bare, "/") THEN SubSeq(bare, 1, Len(bare) - 1) ELSE bare

\* path is /<prefix>/<x> with <x> a non-empty segment, whatever follows it
UnderPrefix(prefix, path) ==
    LET p == "/" \o prefix \o "/"
        bare == Stripped(path)
    IN /\ HasPrefix(bare, p)
       /\ Len(bare) > Len(p)
       /\ CharAt(bare, Len(p) + 1) # "/"

\* C26: a path /<prefix>/<x>... with a known prefix and a non-empty segment
\* <x> is normalized to /<prefix>/*; every other path is returned with its
\* query string and trailing slash stripped and nothing else changed.
C26_PrefixCollapse ==
    cl.pathDone =>
        /\ \A prefix \in KnownPrefixes :
               UnderPrefix(prefix, cl.r.path) => cl.path = "/" \o prefix \o "/*"
        /\ (\A prefix \in KnownPrefixes : ~UnderPrefix(prefix, cl.r.path)) =>
               cl.path = Stripped(cl.r.path)

\* the comma-separated entries of a header value, trimmed
RECURSIVE Entries(_)
Entries(s) ==
    LET comma == Index(s, ",")
    IN IF comma = 0 THEN <<TrimSpace(s)>>
       ELSE <<TrimSpace(SubSeq(s, 1, comma - 1))>> \o Entries(SubSeq(s, comma + 1, Len(s)))

\* the peer address with its port removed
WithoutPort(addr) ==
    LET colon == LastIndex(addr, ":")
    IN IF colon = 0 THEN addr ELSE SubSeq(addr, 1, colon - 1)

\* C27: ExtractIP returns the first entry of X-Forwarded-For that parses as
\* an IP address, else X-Real-IP when it parses, else RemoteAddr without
\* its port.
C27_FirstParsableForwarded ==
    cl.ipDone =>
        LET entries == Entries(cl.r.xff)
            valid == {i \in DOMAIN entries : ParseIP(entries[i])}
        IN cl.ip = IF valid # {} THEN entries[Min(valid)]
                   ELSE IF ParseIP(cl.r.xri) THEN cl.r.xri
                   ELSE WithoutPort(cl.r.remoteAddr)

C29_NilLimiterFailsOpen ==
    limiter = "nil" =>
        \A h \in StubHandlers :
            /\ hs[h].pc # "panic"
            /\ Done(h) => (hs[h].resp.next = 1 /\ hs[h].resp.status \in NextStatuses)

C37_ConsumerProcessesInOrder ==
    /\ [](ac.worker = "select" => ac.processed \o ac.batch \o ac.buffer = ac.accepted)
    /\ [][Len(ac'.processed) - Len(ac.processed) <= batchSize]_vars
    /\ \A n \in 1..MaxEvents : (Len(ac.accepted) >= n) ~> (Len(ac.processed) >= n)

C37_Witness ==
    /\ ac.shutdown = "idle"
    /\ ac.processed # <<>>
    /\ Len(ac.processed) < batchSize
    /\ ac.batch = <<>>

\* C40: once Shutdown has been called, a call of RecordRequestAsync or
\* RecordRateLimitAsync still ends with the event sent or dropped: it
\* neither waits nor panics.
C40_CallsMeetingShutdownAreSafe ==
    (ac.shutdown # "idle" /\ ac.produced > 0) => ac.last \in {"sent", "dropped"}

(***************************************************************************)
(* Hash tags, ledger replies and resolved limits.                          *)
(***************************************************************************)
\* Redis Cluster: the part of a key that is hashed, the text between the
\* first "{" and the next "}" when it is not empty
HashTag(key) ==
    LET open == Index(key, "{")
        rest == SubSeq(key, open + 1, Len(key))
        close == Index(rest, "}")
    IN IF open = 0 \/ close <= 1 THEN key ELSE SubSeq(rest, 1, close - 1)

\* C34: the three dimension keys of one request get the same hash tag, and
\* the keys of a caller with another source get another tag.
C34_HashTagPerCaller ==
    pf.tagDone =>
        /\ \A d1, d2 \in Dimensions : HashTag(pf.tagged[d1]) = HashTag(pf.tagged[d2])
        /\ \A r \in ApplyRequests :
               ExtractIP(r) # ExtractIP(pf.req) =>
                   HashTag(addHashTag(IPKey(ExtractIP(r)))) # HashTag(pf.tagged["ip"])

\* a reply that is not a list of two integers
Malformed(reply) ==
    \/ ~reply.isList
    \/ Len(reply.elems) # 2
    \/ \E i \in DOMAIN reply.elems : ~reply.elems[i].isInt

\* C35: both ledger clients answer a malformed reply with an error: neither
\* returns a verdict for it and neither panics.
C35_ProtocolErrorIsStoreError ==
    (pf.parseDone /\ Malformed(pf.reply)) =>
        \A client \in {"redis", "cluster"} :
            /\ pf.parsed[client].err
            /\ ~pf.parsed[client].panic

\* C36: with a positive default and no override the limit of every
\* dimension is at least 1.
C36_ResolvedLimitsPositive ==
    pf.limitsDone => \A d \in Dimensions : pf.limits[d].Limit >= 1

(***************************************************************************)
(* The requests-in-progress gauge.                                         *)
(***************************************************************************)
\* the label pairs of the gauge
WrapLabels == { <<r.method, NormalizePath(r.path)>> : r \in WrapRequests }

\* the requests of a label pair that are inside the wrapper
Inside(labels) ==
    { h \in WrapHandlers : mm.w[h].pc = "next" /\ <<mm.w[h].method, mm.w[h].path>> = labels }

\* C39: the gauge of every (method, route class) pair equals the number of
\* requests of that pair inside the wrapper, so it is never negative and is
\* 0 again when none is in flight, whether the request returned with any
\* status or panicked.
C39_GaugeCountsRequestsInside ==
    /\ DOMAIN mm.gauge \subseteq WrapLabels
    /\ \A labels \in WrapLabels :
          /\ Child(mm.gauge, labels) = Cardinality(Inside(labels))
          /\ Child(mm.gauge, labels) >= 0

\* at least two requests entered, all have left, one of a pair ended with
\* 502 and the gauge of that pair is 0 again
C39_Witness ==
    \E labels \in DOMAIN mm.gauge :
        /\ mm.gauge[labels] = 0
        /\ mm.served >= 2
        /\ \A h \in WrapHandlers : mm.w[h].pc = "out"
        /\ \E l \in DOMAIN mm.total : l[3] = 502 /\ <<l[1], l[2]>> = labels

(***************************************************************************)
(* The decision cache.                                                     *)
(***************************************************************************)
\* the admits of a key that did not come from a failing store and were
\* returned within the window that ends now
AdmitsInWindow(key) ==
    {a \in lc.answers : a.key = key /\ a.Allowed /\ a.source # "failopen"
                        /\ a.at > clock - window}

\* C31: every admit CheckLimitOptimized returns while the store answers,
\* cache hits included, made one insertion into the bucket, and the admits
\* of a key within one window are at most its limit.
C31_CacheDoesNotWeakenLedger ==
    /\ \A a \in lc.answers : (a.Allowed /\ a.source # "failopen") => a.inserted
    /\ \A a \in lc.answers : Cardinality(AdmitsInWindow(a.key)) <= a.limit

\* C32: the cache holds admits only, and no call is answered with a cached
\* deny.
C32_OnlyAdmitsAreCached ==
    /\ \A key \in DOMAIN lc.data : lc.data[key].allowed
    /\ \A a \in lc.answers : a.source = "cache" => a.Allowed

\* C33: no step removes an entry that is younger than ttl.
C33_YoungEntryIsNotRemoved ==
    [][\A key \in DOMAIN lc.data :
          clock - lc.data[key].timestamp < ttl => key \in DOMAIN lc'.data]_vars

(***************************************************************************)
(* The parallel check.                                                     *)
(***************************************************************************)
\* C38: when CheckMultipleLimitsOptimized has returned, every spawned check
\* has completed and delivered its pair, the result holds exactly the
\* verdict of each requested key, and nothing is left in the channel; no
\* goroutine with a finished check ever finds the channel full; and a call
\* that is collecting returns.
C38_ParallelCheckCollectsAll ==
    /\ [](par.phase = "returned" =>
            /\ \A c \in ParDimensions : lc.g[c].pc = "sent"
            /\ DOMAIN par.results = DOMAIN par.limits
            /\ \A c \in ParDimensions : par.results[lc.g[c].key] = lc.g[c].result
            /\ par.resultChan = <<>>)
    /\ []((\E c \in ParDimensions : lc.g[c].pc = "done") =>
            Len(par.resultChan) < ChanCap(par.limits))
    /\ (par.phase = "collecting") ~> (par.phase = "returned")

\* a second call has returned whose ctx had a deadline, with a verdict of
\* the cache and one of a failing store in its result
C38_Witness ==
    /\ par.phase = "returned"
    /\ par.calls > 1
    /\ par.deadline > 0
    /\ {lc.g[c].source : c \in ParDimensions} = {"cache", "failopen"}

====
